---- MODULE Spec2Model ----
(***************************************************************************)
(* voice-orchestrator: the per-room event correlator of main.py            *)
(* (pending_intents, process_intent_if_ready, the message loop of          *)
(* main_async) and the semantic tool cache of semantic_cache.py.           *)
(*                                                                         *)
(* The correlator runs on one asyncio event loop: the message loop and the *)
(* fire-and-forget tasks are coroutines, so the code between two awaits is *)
(* one atomic step.  Every action below is such a step.  Tasks and message *)
(* consumption interleave in any order, which covers every schedule the    *)
(* event loop can produce.                                                 *)
(***************************************************************************)
EXTENDS Integers, Sequences, FiniteSets, TLC

-----------------------------------------------------------------------------
(* Bounds *)

\* Number of broker messages the message loop consumes in one behaviour.
MaxEvents == 4

\* Number of entries of the cache document found in the remote store at startup.
MaxDocEntries == 1

\* The tool calls one answer of the fallback model holds at most.
MaxToolCalls == 2

\* The vocabulary entries a sanitized text that is already correct is made of
\* at most.
MaxPhrases == 2

-----------------------------------------------------------------------------
(* Values *)

Rooms == {"kitchen", "office"}

\* Python None.
None == "<None>"

\* A JSON payload whose field is missing, is null, or is a number.
Missing == "<missing>"
JsonNull == "<null>"
NonStr == "<number>"

\* The "text" field of a voice/asr/text payload.
PayloadTexts == {"turn off light", "  ", Missing, JsonNull, NonStr}

\* The "speaker_id" field of a voice/speaker/identified payload.
PayloadSpeakers == {"bob", Missing, JsonNull}

\* dict.get(key, default) on a decoded JSON payload: the default only when the
\* key is missing, None when the field is null.
PayloadGet(field, default) ==
    IF field = Missing THEN default
    ELSE IF field = JsonNull THEN None
    ELSE field

\* str.strip() on the transcripts of the model; a value that is no string has
\* no strip method (AttributeError), see HasStrip.
Strip(text) ==
    IF text = "  " THEN "" ELSE text

HasStrip(text) ==
    text # NonStr

-----------------------------------------------------------------------------
(* State *)

VARIABLES
    pending_intents,  \* main.py:71, room -> entry (a dict with keys "text", "speaker_id")
    starts,           \* per room: tasks created by create_task that have not run yet
    runs,             \* per room: the tasks that popped an entry, in pop order
    nConsumed,        \* number of broker messages consumed by the message loop
    active_sessions,  \* main.py:70, room -> the player's volume before it was ducked
    volume,           \* the volume_level of each room's media player, in thousandths
    fieldHist,        \* history: per room, where the entry's text and speaker_id come from
    scenario          \* history: per room, how far the room's messages follow
                      \* wake, speaker, transcript (or wake, transcript, speaker),
                      \* or the same without the wake

corrVars == <<pending_intents, starts, runs, nConsumed, active_sessions, volume,
              fieldHist, scenario>>

VARIABLES
    cachePhase,       \* "new" before the constructor ran, "ready" after it, "failed" if it raised
    encoder,          \* self.encoder.encode, text -> vector
    remote,           \* the object tool_cache.json in the bucket
    cache_dict,       \* self.cache_dict, in insertion order: <<[key, data], ...>>
    utterance_texts,  \* self.utterance_texts
    utterance_matrix, \* self.utterance_matrix: None or one row per text
    lastGet,          \* what the last get_cached_tool call returned
    loaded,           \* history: the table as parsed from the remote document at load
    firstAdd,         \* history: per key, the tool and arguments of the first add of
                      \* that key, for keys that were not loaded
    readded,          \* history: an add named a key that was already learned
    puts,             \* history: the put_object calls issued by the latest load or add
    lastAdd           \* history: whether the latest add found its key "present" or
                      \* "new" ("none" before the first add)

cacheVars == <<puts, lastAdd, cachePhase, encoder, remote, cache_dict, utterance_texts,
               utterance_matrix, lastGet, loaded, firstAdd, readded>>

VARIABLES
    pipe              \* the latest run of resolve_and_execute_intent and of the
                      \* publish that follows it: its arguments, its position,
                      \* its locals, and a record of the calls it has made

pipeVars == <<pipe>>

VARIABLES
    routerPhase,      \* "new" before the router's constructor ran, "ready" after it
    routerRemote,     \* the object routes.json in the bucket
    route_dict,       \* self.route_dict, in insertion order: <<[route, phrases], ...>>
    routes,           \* self.routes
    router_matrix,    \* the router's self.utterance_matrix: no rows (None) or one per phrase
    utterance_routes, \* self.utterance_routes: the owning route of each row
    lastTeach,        \* what the last learn_new_phrase call was given and returned
    row_texts,        \* history: the utterance each row of the router's matrix encodes
    lastRoute         \* what the last get_route call returned

routerVars == <<routerPhase, routerRemote, route_dict, routes, router_matrix,
                utterance_routes, lastTeach, row_texts, lastRoute>>

VARIABLES
    dice_threshold,   \* the sanitizer's self.threshold, as a fraction
    known_vocabulary, \* self.known_vocabulary, in the order in which the set is iterated
    san,              \* the latest call of sanitize: its argument, its position
                      \* and its locals, and a record of what it has consumed
    lastDice          \* what the last direct call of _dice_coefficient was given
                      \* and returned

sanVars == <<dice_threshold, known_vocabulary, san, lastDice>>

vars == <<corrVars, cacheVars, pipeVars, routerVars, sanVars>>

\* dict.get(key) on an entry: None when the key is missing.
Get(entry, key) ==
    IF key \in DOMAIN entry THEN entry[key] ELSE None

\* Mutant: pending_intents[room] = {key: value}, which drops the other field.
SetField_Overwrite(table, room, key, value) ==
    [r \in DOMAIN table \cup {room} |->
        IF r = room THEN [k \in {key} |-> value] ELSE table[r]]

\* Mutant: pending_intents[room][key] = value, which fails for a room without
\* an entry and leaves the table as it was.
SetField_Existing(table, room, key, value) ==
    IF room \in DOMAIN table
    THEN [table EXCEPT ![room] =
            [k \in DOMAIN @ \cup {key} |-> IF k = key THEN value ELSE @[k]]]
    ELSE table

\* pending_intents.setdefault(room, {})[key] = value
SetField(table, room, key, value) ==
    LET old == IF room \in DOMAIN table THEN table[room] ELSE <<>>
        new == [k \in DOMAIN old \cup {key} |-> IF k = key THEN value ELSE old[k]]
    IN  [r \in DOMAIN table \cup {room} |-> IF r = room THEN new ELSE table[r]]

\* Mutant: pending_intents.setdefault(room, {...}), which keeps a stale entry.
ResetEntry_Keep(table, room) ==
    [r \in DOMAIN table \cup {room} |->
        IF r \in DOMAIN table THEN table[r]
        ELSE [text |-> None, speaker_id |-> None]]

\* pending_intents[room] = {"text": None, "speaker_id": None}
ResetEntry(table, room) ==
    [r \in DOMAIN table \cup {room} |->
        IF r = room THEN [text |-> None, speaker_id |-> None] ELSE table[r]]

\* Mutant: the entry is read and not removed.
PopEntry_Keep(table, room) ==
    table

\* Mutant: pending_intents.clear(), which removes every room's entry.
PopEntry_All(table, room) ==
    <<>>

\* pending_intents.pop(room)
PopEntry(table, room) ==
    [r \in DOMAIN table \ {room} |-> table[r]]

\* The task goes on after "if not intent_data: return" and
\* "if text is None or speaker_id is None: return".
Ready(table, room) ==
    /\ room \in DOMAIN table
    /\ DOMAIN table[room] # {}
    /\ Get(table[room], "text") # None
    /\ Get(table[room], "speaker_id") # None

\* Mutant: the pipeline suspends at its collaborator calls, as it would if
\* they were awaited in a thread.
LoopFree_Always ==
    TRUE

\* The event loop's thread is not inside resolve_and_execute_intent for any
\* run: the coroutine has no point of suspension between the pop (line 285)
\* and its return or raise (its awaits are of plain calls, and the fallback
\* model and device-service requests are synchronous), so only when no run is
\* inside it can another coroutine (the message loop, a task) run.
LoopFree ==
    \A room \in Rooms : \A i \in DOMAIN runs[room] :
        runs[room][i].pc \notin {"resolve", "calling"}

\* The message loop is given the next message.
CanConsume ==
    /\ nConsumed < MaxEvents
    /\ LoopFree

\* History of one field of a room's entry:
\*   "unset"  no message set it since the entry was last popped (or ever),
\*   "live"   set by a message that no wake of the room has followed,
\*   "old"    set by a message that a wake of the room has followed,
\*   "used"   its value went into a popped entry and no message has set it since.
\* sep: the text and the speaker_id now held were set on different sides of a wake.
NoHist == [text |-> "unset", speaker_id |-> "unset", sep |-> FALSE]

Other(key) == IF key = "text" THEN "speaker_id" ELSE "text"

HistSet(h, key) ==
    [h EXCEPT ![key] = "live", !.sep = (h[Other(key)] = "old")]

HistWake(h) ==
    [h EXCEPT !.text = IF @ = "live" THEN "old" ELSE @,
              !.speaker_id = IF @ = "live" THEN "old" ELSE @]

HistPop(h) ==
    [text |-> "used", speaker_id |-> "used", sep |-> FALSE]

\* The monitor of the room's message sequence.
IsCommand(value) ==
    /\ value # None
    /\ HasStrip(value)
    /\ Strip(value) # ""

ScenarioStep(s, kind, value) ==
    IF s.st = "start" /\ kind = "wake" THEN [s EXCEPT !.st = "w"]
    ELSE IF s.st = "w" /\ kind = "speaker" /\ value # None
        THEN [s EXCEPT !.st = "ws", !.S = value]
    ELSE IF s.st = "w" /\ kind = "transcript" /\ IsCommand(value)
        THEN [s EXCEPT !.st = "wt", !.T = value]
    ELSE IF s.st = "ws" /\ kind = "transcript" /\ IsCommand(value)
        THEN [s EXCEPT !.st = "wst", !.T = value]
    ELSE IF s.st = "wt" /\ kind = "speaker" /\ value # None
        THEN [s EXCEPT !.st = "wts", !.S = value]
    ELSE IF s.st = "start" /\ kind = "transcript" /\ IsCommand(value)
        THEN [s EXCEPT !.st = "t", !.T = value]
    ELSE IF s.st = "start" /\ kind = "speaker" /\ value # None
        THEN [s EXCEPT !.st = "s", !.S = value]
    ELSE IF s.st = "t" /\ kind = "speaker" /\ value # None
        THEN [s EXCEPT !.st = "ts", !.S = value]
    ELSE IF s.st = "s" /\ kind = "transcript" /\ IsCommand(value)
        THEN [s EXCEPT !.st = "st", !.T = value]
    ELSE IF s.st \in {"t", "s", "ts", "st"} /\ kind = "wake"
        THEN [s EXCEPT !.st = s.st \o "w"]
    ELSE IF s.st = "tw" /\ kind = "speaker" /\ value # None
        THEN [s EXCEPT !.st = "tws", !.S = value]
    ELSE IF s.st = "sw" /\ kind = "transcript" /\ IsCommand(value)
        THEN [s EXCEPT !.st = "swt", !.T = value]
    ELSE [st |-> "off", T |-> None, S |-> None]

\* The media player's volume_level when the orchestrator starts (0.8).
InitialVolumes == {800}

\* duck_volume = max(0.1, current_volume * 0.5)
DuckVolume(current) ==
    IF current \div 2 > 100 THEN current \div 2 ELSE 100

\* What ha_client.get_state(entity_id) can answer: None (the request failed),
\* a player that is not playing, a player that is playing.
PlayerStates == {"unreachable", "idle", "playing"}

\* ha_client.call_service returns True, or False when the request failed.
ServiceResults == {TRUE, FALSE}

InitCorrelator ==
    /\ pending_intents = <<>>
    /\ starts = [r \in Rooms |-> 0]
    /\ runs = [r \in Rooms |-> <<>>]
    /\ nConsumed = 0
    /\ active_sessions = <<>>
    /\ volume \in [Rooms -> InitialVolumes]
    /\ fieldHist = [r \in Rooms |-> NoHist]
    /\ scenario = [r \in Rooms |-> [st |-> "start", T |-> None, S |-> None]]

-----------------------------------------------------------------------------
(* The message loop, main.py:342-374 *)

\* A message whose payload has no room: "if not room: continue".
NoRoomMessage ==
    /\ CanConsume
    /\ nConsumed' = nConsumed + 1
    /\ UNCHANGED <<pending_intents, starts, runs, active_sessions, volume,
                   fieldHist, scenario>>
    /\ UNCHANGED <<cacheVars, pipeVars, routerVars, sanVars>>

\* handle_wakeword (main.py:86-101): a playing player's volume is recorded and
\* ducked; nothing happens for any other answer of get_state.
HandleWakeword(room, player, accepted) ==
    IF player = "playing"
    THEN /\ active_sessions' =
                [r \in DOMAIN active_sessions \cup {room} |->
                    IF r = room THEN volume[room] ELSE active_sessions[r]]
         /\ volume' = IF accepted
                       THEN [volume EXCEPT ![room] = DuckVolume(volume[room])]
                       ELSE volume
    ELSE UNCHANGED <<active_sessions, volume>>

\* handle_finished (main.py:104-116): the recorded volume is taken out and restored.
HandleFinished(room, accepted) ==
    IF room \in DOMAIN active_sessions
    THEN /\ active_sessions' =
                [r \in DOMAIN active_sessions \ {room} |-> active_sessions[r]]
         /\ volume' = IF accepted
                       THEN [volume EXCEPT ![room] = active_sessions[room]]
                       ELSE volume
    ELSE UNCHANGED <<active_sessions, volume>>

\* voice/wakeword/<room>
Wake(room) ==
    /\ CanConsume
    /\ nConsumed' = nConsumed + 1
    /\ pending_intents' = ResetEntry(pending_intents, room)
    /\ \E player \in PlayerStates, accepted \in ServiceResults :
            HandleWakeword(room, player, accepted)
    /\ fieldHist' = [fieldHist EXCEPT ![room] = HistWake(@)]
    /\ scenario' = [scenario EXCEPT ![room] = ScenarioStep(@, "wake", None)]
    /\ UNCHANGED <<starts, runs>>
    /\ UNCHANGED <<cacheVars, pipeVars, routerVars, sanVars>>

\* voice/finished/<room>
Finished(room) ==
    /\ CanConsume
    /\ nConsumed' = nConsumed + 1
    /\ \E accepted \in ServiceResults : HandleFinished(room, accepted)
    /\ scenario' = [scenario EXCEPT ![room] = ScenarioStep(@, "finished", None)]
    /\ UNCHANGED <<pending_intents, starts, runs, fieldHist>>
    /\ UNCHANGED <<cacheVars, pipeVars, routerVars, sanVars>>

\* voice/asr/text
Transcript(room, field) ==
    LET text == PayloadGet(field, "") IN
    /\ CanConsume
    /\ nConsumed' = nConsumed + 1
    /\ pending_intents' = SetField(pending_intents, room, "text", text)
    /\ starts' = [starts EXCEPT ![room] = @ + 1]
    /\ fieldHist' = [fieldHist EXCEPT ![room] = HistSet(@, "text")]
    /\ scenario' = [scenario EXCEPT ![room] = ScenarioStep(@, "transcript", text)]
    /\ UNCHANGED <<runs, active_sessions, volume>>
    /\ UNCHANGED <<cacheVars, pipeVars, routerVars, sanVars>>

\* voice/speaker/identified
Speaker(room, field) ==
    LET speaker == PayloadGet(field, "Unbekannt") IN
    /\ CanConsume
    /\ nConsumed' = nConsumed + 1
    /\ pending_intents' = SetField(pending_intents, room, "speaker_id", speaker)
    /\ starts' = [starts EXCEPT ![room] = @ + 1]
    /\ fieldHist' = [fieldHist EXCEPT ![room] = HistSet(@, "speaker_id")]
    /\ scenario' = [scenario EXCEPT ![room] = ScenarioStep(@, "speaker", speaker)]
    /\ UNCHANGED <<runs, active_sessions, volume>>
    /\ UNCHANGED <<cacheVars, pipeVars, routerVars, sanVars>>

-----------------------------------------------------------------------------
(* process_intent_if_ready, main.py:270-312 *)

\* Lines 272-282: the entry is missing or not complete, the task returns.
TaskNotReady(room) ==
    /\ LoopFree
    /\ starts[room] > 0
    /\ ~Ready(pending_intents, room)
    /\ starts' = [starts EXCEPT ![room] = @ - 1]
    /\ UNCHANGED <<pending_intents, runs, nConsumed, active_sessions, volume,
                   fieldHist, scenario>>
    /\ UNCHANGED <<cacheVars, pipeVars, routerVars, sanVars>>

\* Mutant: no empty-string check.
AfterPop_NoBlankCheck(text) ==
    IF ~HasStrip(text) THEN "crashed" ELSE "resolve"

\* Where the task stands at its first await after the pop (lines 287-301):
\* text.strip() raises on a value that is no string, before the try block;
\* a blank transcript awaits the session-end publish; any other transcript is
\* sanitized (synchronously) and handed to resolve_and_execute_intent.
AfterPop(text) ==
    IF ~HasStrip(text) THEN "crashed"
    ELSE IF Strip(text) = "" THEN "abort"
    ELSE "resolve"

\* The task as it holds the popped entry (lines 272-285).  History fields:
\* pipeline (the unit was handed to resolve_and_execute_intent), entryLeft (the
\* room still had an entry right after the pop), separated, stale, reused (where
\* the entry's fields came from, see NoHist).
Popped(entry, hist, entryLeft) ==
    [text |-> Get(entry, "text"),
     speaker_id |-> Get(entry, "speaker_id"),
     pc |-> AfterPop(Get(entry, "text")),
     raisedAt |-> IF HasStrip(Get(entry, "text")) THEN "none" ELSE "strip",
     nFinished |-> 0,
     nTts |-> 0,
     pipeline |-> (AfterPop(Get(entry, "text")) = "resolve"),
     entryLeft |-> entryLeft,
     separated |-> hist.sep,
     stale |-> (hist.text = "old" \/ hist.speaker_id = "old"),
     reused |-> (hist.text = "used" \/ hist.speaker_id = "used")]

\* Lines 272-301 up to the first await: check, pop, blank check, sanitize.
TaskPop(room) ==
    /\ LoopFree
    /\ starts[room] > 0
    /\ Ready(pending_intents, room)
    /\ starts' = [starts EXCEPT ![room] = @ - 1]
    /\ pending_intents' = PopEntry(pending_intents, room)
    /\ runs' = [runs EXCEPT ![room] =
                    Append(@, Popped(pending_intents[room], fieldHist[room],
                                     room \in DOMAIN pending_intents'))]
    /\ fieldHist' = [fieldHist EXCEPT ![room] = HistPop(@)]
    /\ UNCHANGED <<nConsumed, active_sessions, volume, scenario>>
    /\ UNCHANGED <<cacheVars, pipeVars, routerVars, sanVars>>

RunAt(room, i, pc) ==
    /\ i \in DOMAIN runs[room]
    /\ runs[room][i].pc = pc

\* Lines 290-293: the session-end publish of a blank transcript.
TaskAbort(room, i) ==
    /\ LoopFree
    /\ RunAt(room, i, "abort")
    /\ runs' = [runs EXCEPT ![room][i].pc = "done", ![room][i].nFinished = @ + 1]
    /\ UNCHANGED <<pending_intents, starts, nConsumed, active_sessions, volume,
                   fieldHist, scenario>>
    /\ UNCHANGED <<cacheVars, pipeVars, routerVars, sanVars>>

\* resolve_and_execute_intent reaches a collaborator call: the fallback model
\* (llm_client.chat.completions.create, line 163), the device context
\* (ha_client.get_dynamic_context, line 142) or a tool's device-service request
\* (execute_tool, lines 185, 215, 232).  Each is a plain call made by the
\* coroutine itself, so the event loop's thread is inside it until it returns.
TaskCall(room, i) ==
    /\ RunAt(room, i, "resolve")
    /\ runs' = [runs EXCEPT ![room][i].pc = "calling"]
    /\ UNCHANGED <<pending_intents, starts, nConsumed, active_sessions, volume,
                   fieldHist, scenario>>
    /\ UNCHANGED <<cacheVars, pipeVars, routerVars, sanVars>>

\* Lines 301-303: resolve_and_execute_intent returns or raises, out of a
\* collaborator call or without having made one.
TaskResolve(room, i) ==
    /\ \/ RunAt(room, i, "calling")
       \/ RunAt(room, i, "resolve")
    /\ \E outcome \in {"returns", "raises"} :
        runs' = IF outcome = "returns"
                THEN [runs EXCEPT ![room][i].pc = "publish"]
                ELSE [runs EXCEPT ![room][i].pc = "except",
                                  ![room][i].raisedAt = "resolve"]
    /\ UNCHANGED <<pending_intents, starts, nConsumed, active_sessions, volume,
                   fieldHist, scenario>>
    /\ UNCHANGED <<cacheVars, pipeVars, routerVars, sanVars>>

\* Line 306 and publish_response (254-267): the tts-generate publish, or a raise.
TaskPublish(room, i) ==
    /\ LoopFree
    /\ RunAt(room, i, "publish")
    /\ \E outcome \in {"returns", "raises"} :
        runs' = IF outcome = "returns"
                THEN [runs EXCEPT ![room][i].pc = "done", ![room][i].nTts = @ + 1]
                ELSE [runs EXCEPT ![room][i].pc = "except",
                                  ![room][i].raisedAt = "publish"]
    /\ UNCHANGED <<pending_intents, starts, nConsumed, active_sessions, volume,
                   fieldHist, scenario>>
    /\ UNCHANGED <<cacheVars, pipeVars, routerVars, sanVars>>

\* Lines 308-312: the except block publishes the session-end.
TaskExcept(room, i) ==
    /\ LoopFree
    /\ RunAt(room, i, "except")
    /\ runs' = [runs EXCEPT ![room][i].pc = "done", ![room][i].nFinished = @ + 1]
    /\ UNCHANGED <<pending_intents, starts, nConsumed, active_sessions, volume,
                   fieldHist, scenario>>
    /\ UNCHANGED <<cacheVars, pipeVars, routerVars, sanVars>>

-----------------------------------------------------------------------------
(* The semantic tool cache, semantic_cache.py *)

\* Utterances are sequences of characters, so that lower() and strip() are
\* computed and not assumed.
Utterances == {<<"a", "b">>, <<" ", "A", "b", " ">>, <<"c">>}

\* Queries: the utterances, and one that is never added.
Queries == Utterances \cup {<<"D">>}

LowerChar(c) ==
    CASE c = "A" -> "a"
      [] c = "B" -> "b"
      [] c = "C" -> "c"
      [] c = "D" -> "d"
      [] OTHER -> c

\* str.lower()
Lower(str) ==
    [i \in DOMAIN str |-> LowerChar(str[i])]

\* str.strip(): without its leading and trailing blanks.
StripChars(str) ==
    LET inner == {i \in DOMAIN str : str[i] # " "} IN
    IF inner = {} THEN <<>>
    ELSE LET first == CHOOSE i \in inner : \A j \in inner : i <= j
             last == CHOOSE i \in inner : \A j \in inner : j <= i
         IN  SubSeq(str, first, last)

\* utterance.lower().strip()
Normalize(str) ==
    StripChars(Lower(str))

\* The keys the cache can hold in the model.
Keys == {Normalize(u) : u \in Queries}

Tools == {"control_light", "play_music"}

\* exact_tools, the registry's exact-only tools handed to the constructor.
ExactTools == {"play_music"}

ArgSets == {[action |-> "turn_off"], [query |-> "jazz"]}

\* Embeddings: the encoder is any fixed function from texts to vectors.  The
\* vectors of the model have length 5 (or 0), so a normalized vector is the
\* vector over 5 and a cosine similarity is a dot product over 25: scores and
\* thresholds are counted in 25ths.
Vectors == {<<10, 0>>, <<4, 3>>, <<0, 0>>}

\* The length of a normalized vector, and the similarity 1.0.
Unit == 5
One == Unit * Unit

\* Thresholds of get_cached_tool: 0.0, 0.92 (the pipeline's) and 1.04.
Thresholds == {0, 23, 26}

Dot(v, w) ==
    v[1] * w[1] + v[2] * w[2]

\* np.linalg.norm
VectorNorm(v) ==
    CHOOSE n \in 0..20 : n * n = Dot(v, v)

\* embeddings / np.clip(norms, 1e-9, None), in units of 1/Unit: the zero vector
\* stays the zero vector, any other vector gets length Unit.
NormalizeVector(v) ==
    IF VectorNorm(v) = 0 THEN v
    ELSE [i \in DOMAIN v |-> (v[i] * Unit) \div VectorNorm(v)]

\* The remote object: absent, not parseable, or a JSON document of a table.
Absent == [kind |-> "absent"]
Corrupt == [kind |-> "corrupt"]

\* json.dumps(self.cache_dict, ...).encode("utf-8")
Dumps(table) == [kind |-> "json", body |-> table]

\* json.loads(response["Body"].read().decode("utf-8"))
Loads(object) == object.body

KeysOf(table) == {table[i].key : i \in DOMAIN table}

\* self.cache_dict[key]
Lookup(table, key) ==
    table[CHOOSE i \in DOMAIN table : table[i].key = key].data

\* Mutant: the flag is read under a key no entry has.
IsExactOnly_Never(data) ==
    FALSE

\* data.get("exact_only", False)
IsExactOnly(data) ==
    IF "exact_only" \in DOMAIN data THEN data.exact_only ELSE FALSE

\* data.get("exact_only") != should_be_exact
FlagDiffers(data, should_be_exact) ==
    IF "exact_only" \in DOMAIN data THEN data.exact_only # should_be_exact ELSE TRUE

\* self.cache_dict[text]["exact_only"] = should_be_exact
WithFlag(data, flag) ==
    [k \in DOMAIN data \cup {"exact_only"} |->
        IF k = "exact_only" THEN flag ELSE data[k]]

\* Mutant: the loaded flags are trusted.
Heal_Skip(table) ==
    table

\* The self-healing loop of _load_from_s3 (lines 54-59).
Heal(table) ==
    [i \in DOMAIN table |->
        [key |-> table[i].key,
         data |-> IF FlagDiffers(table[i].data, table[i].data.tool \in ExactTools)
                  THEN WithFlag(table[i].data, table[i].data.tool \in ExactTools)
                  ELSE table[i].data]]

RECURSIVE FuzzyTexts(_)
\* [text for text, data in cache_dict.items() if not data.get("exact_only", False)]
FuzzyTexts(table) ==
    IF table = <<>> THEN <<>>
    ELSE IF IsExactOnly(Head(table).data)
         THEN FuzzyTexts(Tail(table))
         ELSE <<Head(table).key>> \o FuzzyTexts(Tail(table))

\* _rebuild_matrix (lines 73-88): the texts and the matrix it leaves.
RebuildTexts(table) == FuzzyTexts(table)

\* self.utterance_matrix is None, or <<"rows", rows>>.
NoMatrix == <<"None">>

RebuildMatrix(table) ==
    IF FuzzyTexts(table) = <<>> THEN NoMatrix
    ELSE <<"rows", [i \in DOMAIN FuzzyTexts(table) |->
                        NormalizeVector(encoder[FuzzyTexts(table)[i]])]>>


\* The documents the remote store can hold at startup: tables of at most
\* MaxDocEntries entries, whose exact_only flags are right, wrong or missing.
DocKeys == {<<"a", "b">>, <<"c">>}

DocData ==
    {[tool |-> t, args |-> [action |-> "turn_off"]] : t \in Tools}
    \cup {[tool |-> t, args |-> [action |-> "turn_off"], exact_only |-> f] :
            t \in Tools, f \in BOOLEAN}

DocEntries == {[key |-> k, data |-> d] : k \in DocKeys, d \in DocData}

DocTables ==
    {table \in UNION {[1..n -> DocEntries] : n \in 0..MaxDocEntries} :
        \A i, j \in DOMAIN table : table[i].key = table[j].key => i = j}

RemoteObjects == {Absent, Corrupt} \cup {Dumps(table) : table \in DocTables}

\* s3_client.put_object: returns, raises botocore's ClientError, or raises
\* another error (no connection).
PutResults == {"ok", "client_error", "other_error"}

\* What get_cached_tool returns: (tool, args, score), with the key of the entry
\* the tool and arguments come from, or (None, None, score).
Hit(key, data, score) ==
    [hit |-> TRUE, key |-> key, tool |-> data.tool, args |-> data.args,
     score |-> score]

Miss(score) ==
    [hit |-> FALSE, score |-> score]

\* No call yet.
NoGet == Miss(-1)

\* The cache before its constructor ran, for the encoders and the remote
\* objects given.
InitCacheWith(encoders, remotes) ==
    /\ cachePhase = "new"
    /\ encoder \in encoders
    /\ remote \in remotes
    /\ cache_dict = <<>>
    /\ utterance_texts = <<>>
    /\ utterance_matrix = NoMatrix
    /\ lastGet = NoGet
    /\ loaded = <<>>
    /\ firstAdd = <<>>
    /\ readded = FALSE
    /\ puts = 0
    /\ lastAdd = "none"

InitCache ==
    InitCacheWith([Keys -> Vectors], RemoteObjects)

\* The cache before its constructor ran, with one encoder and no remote object.
InitCacheIdle ==
    InitCacheWith({[k \in Keys |-> <<4, 3>>]}, {Absent})

\* Mutant: the table is written back after every load.
CacheChanged_Always(parsed, healed) ==
    TRUE

\* cache_changed (lines 54-61): the loop set a flag of some entry.
CacheChanged(parsed, healed) ==
    healed # parsed

\* Mutant: the missing object is noted and nothing is written.
StartFresh_NoWrite(object, put1) ==
    [table |-> <<>>, remote |-> object, raised |-> FALSE, parsed |-> <<>>,
     puts |-> 0]

\* Lines 67-69, "except ClientError": self._sync_to_s3() with the table still
\* empty; an error of that write leaves the constructor.
StartFresh(object, put1) ==
    [table |-> <<>>,
     remote |-> IF put1 = "ok" THEN Dumps(<<>>) ELSE object,
     raised |-> put1 # "ok",
     parsed |-> <<>>, puts |-> 1]

\* _load_from_s3 (lines 46-71), as run by the constructor.  readable: whether
\* get_object returns the object (it raises ClientError when there is none, or
\* when the store refuses).  put1, put2: the results of the _sync_to_s3 calls.
\* The result: the table, the remote object and whether the constructor raised.
LoadOutcome(object, readable, put1, put2) ==
    IF object = Absent \/ ~readable
    THEN StartFresh(object, put1)
    ELSE IF object = Corrupt
    THEN \* json.loads raises JSONDecodeError, which nothing catches
         [table |-> <<>>, remote |-> object, raised |-> TRUE, parsed |-> <<>>,
          puts |-> 0]
    ELSE LET healed == Heal(Loads(object)) IN
         IF ~CacheChanged(Loads(object), healed)
         THEN [table |-> healed, remote |-> object, raised |-> FALSE,
               parsed |-> Loads(object), puts |-> 0]
         ELSE IF put1 = "ok"
         THEN [table |-> healed, remote |-> Dumps(healed), raised |-> FALSE,
               parsed |-> Loads(object), puts |-> 1]
         ELSE IF put1 = "client_error"
         THEN \* the ClientError of the first write is caught by the except
              \* clause of the read, which writes again
              [table |-> healed,
               remote |-> IF put2 = "ok" THEN Dumps(healed) ELSE object,
               raised |-> put2 # "ok",
               parsed |-> Loads(object), puts |-> 2]
         ELSE [table |-> healed, remote |-> object, raised |-> TRUE,
               parsed |-> Loads(object), puts |-> 1]

LoadFromS3 ==
    /\ cachePhase = "new"
    /\ \E readable \in BOOLEAN, put1 \in PutResults, put2 \in PutResults :
        LET out == LoadOutcome(remote, readable, put1, put2) IN
        /\ remote' = out.remote
        /\ cache_dict' = out.table
        /\ loaded' = out.parsed
        /\ puts' = out.puts
        /\ IF out.raised
           THEN /\ cachePhase' = "failed"
                /\ UNCHANGED <<utterance_texts, utterance_matrix>>
           ELSE /\ cachePhase' = "ready"
                /\ utterance_texts' = RebuildTexts(out.table)
                /\ utterance_matrix' = RebuildMatrix(out.table)
    /\ UNCHANGED <<encoder, lastGet, firstAdd, readded, lastAdd>>
    /\ UNCHANGED <<corrVars, routerVars, sanVars>>

\* Mutant: the entry is written whether or not the key is present.
AddToTable_Overwrite(table, key, tool_name, tool_args) ==
    LET entry == [key |-> key,
                  data |-> [tool |-> tool_name, args |-> tool_args,
                            exact_only |-> (tool_name \in ExactTools)]]
    IN  IF key \notin KeysOf(table) THEN Append(table, entry)
        ELSE [i \in DOMAIN table |-> IF table[i].key = key THEN entry ELSE table[i]]

\* add_to_cache, lines 97-107: the table after the call.
AddToTable(table, key, tool_name, tool_args) ==
    IF key \notin KeysOf(table)
    THEN Append(table, [key |-> key,
                        data |-> [tool |-> tool_name, args |-> tool_args,
                                  exact_only |-> (tool_name \in ExactTools)]])
    ELSE table

\* Mutant: the matrix is rebuilt for exact_only additions only.
AddRebuilds_Inverted(table, key, tool_name) ==
    key \notin KeysOf(table) /\ tool_name \in ExactTools

\* add_to_cache, lines 112-114: whether the call rebuilds the matrix.
AddRebuilds(table, key, tool_name) ==
    key \notin KeysOf(table) /\ tool_name \notin ExactTools

\* Mutant: the table is written to the store by every call.
AddWrites_Always(table, key) ==
    TRUE

\* Mutant: the table is kept in memory only.
AddWrites_Never(table, key) ==
    FALSE

\* add_to_cache, lines 102 and 116: whether the call reaches _sync_to_s3.
AddWrites(table, key) ==
    key \notin KeysOf(table)

\* add_to_cache (lines 96-116).
AddToCache(utterance, tool_name, tool_args, put) ==
    LET key == Normalize(utterance) IN
    /\ cachePhase = "ready"
    /\ cache_dict' = AddToTable(cache_dict, key, tool_name, tool_args)
    /\ IF AddRebuilds(cache_dict, key, tool_name)
       THEN /\ utterance_texts' = RebuildTexts(cache_dict')
            /\ utterance_matrix' = RebuildMatrix(cache_dict')
       ELSE UNCHANGED <<utterance_texts, utterance_matrix>>
    /\ remote' = IF AddWrites(cache_dict, key) /\ put = "ok"
                  THEN Dumps(cache_dict')
                  ELSE remote
    /\ puts' = IF AddWrites(cache_dict, key) THEN 1 ELSE 0
    /\ lastAdd' = IF key \in KeysOf(cache_dict) THEN "present" ELSE "new"
    /\ readded' = (readded \/ key \in DOMAIN firstAdd)
    /\ firstAdd' =
        IF key \in DOMAIN firstAdd \/ key \in KeysOf(loaded) THEN firstAdd
        ELSE [k \in DOMAIN firstAdd \cup {key} |->
                IF k = key THEN [tool |-> tool_name, args |-> tool_args]
                ELSE firstAdd[k]]
    /\ UNCHANGED <<cachePhase, encoder, lastGet, loaded>>
    /\ UNCHANGED <<corrVars, routerVars, sanVars>>

\* np.dot(self.utterance_matrix, query_normalized)
Similarities(matrix, query_normalized) ==
    [i \in DOMAIN matrix[2] |-> Dot(matrix[2][i], query_normalized)]

\* Mutant: the index of the smallest value.
ArgMax_Least(values) ==
    CHOOSE i \in DOMAIN values :
        /\ \A j \in DOMAIN values : values[i] <= values[j]
        /\ \A j \in DOMAIN values : j < i => values[i] < values[j]

\* np.argmax: the first index of the greatest value.
ArgMax(values) ==
    CHOOSE i \in DOMAIN values :
        /\ \A j \in DOMAIN values : values[j] <= values[i]
        /\ \A j \in DOMAIN values : j < i => values[j] < values[i]

\* get_cached_tool (lines 118-152), on the table, texts and matrix given.
GetFrom(table, texts, matrix, query, threshold) ==
    LET q == Normalize(query) IN
    IF q \in KeysOf(table) THEN Hit(q, Lookup(table, q), One)
    ELSE IF matrix = NoMatrix THEN Miss(0)
    ELSE LET similarities == Similarities(matrix, NormalizeVector(encoder[q]))
             best_idx == ArgMax(similarities)
             best_score == similarities[best_idx]
             matched_text == texts[best_idx]
         IN  IF best_score >= threshold /\ ~IsExactOnly(Lookup(table, matched_text))
             THEN Hit(matched_text, Lookup(table, matched_text), best_score)
             ELSE Miss(best_score)

GetCachedTool(query, threshold) ==
    GetFrom(cache_dict, utterance_texts, utterance_matrix, query, threshold)

\* A call of get_cached_tool.
GetCached(query, threshold) ==
    /\ cachePhase = "ready"
    /\ lastGet' = GetCachedTool(query, threshold)
    /\ UNCHANGED <<cachePhase, encoder, remote, cache_dict, utterance_texts,
                   utterance_matrix, loaded, firstAdd, readded, puts, lastAdd>>
    /\ UNCHANGED <<corrVars, routerVars, sanVars>>

-----------------------------------------------------------------------------
(* The resolution pipeline, main.py:198-267 *)

\* main.py awaits execute_tool and ha_client.get_dynamic_context, which
\* tool_handler.py and ha_client.py define as plain functions; the value of
\* such an await is taken to be the value the function returns.

\* ha_tools_definitions (tools.json): the names of the tools it defines.
ToolDefinitions == {"control_light", "play_music", "stop_music"}

\* TOOL_MAPPING (tool_handler.py:355-368): cancel_timer has no entry.
ToolMapping == {"control_light", "play_music", "stop_music"}

\* ROUTE_TOOL_MAP (main.py:52-68), for the routes of this model.
RouteToolMap ==
    [media |-> {"play_music", "stop_music", "manage_volume"},
     home_control |-> {"control_light"}]

\* ROUTE_TOOL_MAP.get(route, [])
AllowedToolNames(route) ==
    IF route \in DOMAIN RouteToolMap THEN RouteToolMap[route] ELSE {}

\* FAST_PATH_MAP (main.py:73-82), two of its phrases.
FastPathMap ==
    [phrase \in {"musik stoppen", "timer abbrechen"} |->
        IF phrase = "musik stoppen"
        THEN [tool |-> "stop_music", args |-> <<>>]
        ELSE [tool |-> "cancel_timer", args |-> <<>>]]

\* The thresholds of the pipeline: 0.92 in 25ths (the cache's score unit),
\* 0.85 in hundredths (the router's score unit).
CacheThreshold == 23
FastPathThreshold == 85

\* "Das habe ich nicht verstanden."
FallbackPhrase == "<fallback phrase>"

\* What semantic_router.get_match_details(text) can return: a route or None,
\* the phrase of the best row, and the best score in hundredths.  "taught" is
\* a route that teach created and ROUTE_TOOL_MAP does not know.
RouterRoutes == {None, "media", "taught"}
RouterPhrases == {"musik stoppen", "timer abbrechen", "licht aus"}
RouterScores == {60, 61, 85, 86}

GetMatchDetails ==
    [route : RouterRoutes, matched_text : RouterPhrases, score : RouterScores]

NoRouter == [route |-> None, matched_text |-> None, score |-> -1]

\* The tool calls the fallback model can ask for: name and parsed arguments.
LlmCalls ==
    {[tool |-> "control_light", args |-> [action |-> "turn_off"]],
     [tool |-> "control_light", args |-> [action |-> "turn_off", room |-> "office"]],
     [tool |-> "play_music", args |-> [query |-> "jazz", room |-> "office"]]}

\* msg.content when the model asks for no tool.
LlmContents == {"<answer>", "", None}

\* Mutant: the current room is a default for a missing room only.
WithRoom_Default(args, room) ==
    [k \in DOMAIN args \cup {"room"} |->
        IF k \in DOMAIN args THEN args[k] ELSE room]

\* tool_args = args.copy(); tool_args["room"] = room
WithRoom(args, room) ==
    [k \in DOMAIN args \cup {"room"} |-> IF k = "room" THEN room ELSE args[k]]

\* function_args.pop("room", None)
PopRoom(args) ==
    [k \in DOMAIN args \ {"room"} |-> args[k]]

\* What a tool function does: it returns a text, returns the empty text (as
\* queue_music does, tool_handler.py:197), or raises.
ToolOutcomes == {"text", "empty", "raises"}

\* execute_tool (tool_handler.py:371-382): the text of a tool that is not
\* implemented, what the tool returns, or None when the tool raised (the
\* except clause logs and returns nothing).
ExecuteTool(tool_name, tool_args, outcome) ==
    IF tool_name \notin ToolMapping THEN "<not implemented>"
    ELSE IF outcome = "raises" THEN None
    ELSE IF outcome = "empty" THEN ""
    ELSE "<tool text>"

\* execute_tool did not run the tool to its end: the name has no function
\* (line 373) or the function raised (lines 379-380).
Failed(tool_name, outcome) ==
    tool_name \notin ToolMapping \/ outcome = "raises"

\* Mutant: the score is not consulted.
FastPath_TableOnly(matched_text, score) ==
    matched_text \in DOMAIN FastPathMap

\* score >= 0.85 and matched_text in FAST_PATH_MAP
FastPath(matched_text, score) ==
    score >= FastPathThreshold /\ matched_text \in DOMAIN FastPathMap

\* run_llm_inference, lines 126-138: the names of active_tools.
ActiveTools(route) ==
    IF route # None
    THEN {tool \in ToolDefinitions : tool \in AllowedToolNames(route)}
    ELSE ToolDefinitions

\* "if not final_text_response": None and "" are replaced.
OrFallback(text) ==
    IF text = None \/ text = "" THEN FallbackPhrase ELSE text

Unpublished == "<unpublished>"

NoPipe ==
    [pc |-> "idle", room |-> None, text |-> <<>>, steps |-> {}, got |-> NoGet,
     router |-> NoRouter, offered |-> {}, calls |-> <<>>, first_failed |-> FALSE,
     adds |-> <<>>, response |-> None, tts |-> Unpublished, finished |-> 0]

InitPipe ==
    pipe = NoPipe

\* A call resolve_and_execute_intent(room, text, speaker_id) of line 301; text
\* is the sanitized transcript.
PipeStart(room, text) ==
    /\ cachePhase = "ready"
    /\ pipe.pc \in {"idle", "done"}
    /\ pipe' = [NoPipe EXCEPT !.pc = "cache", !.room = room, !.text = text]
    /\ UNCHANGED <<corrVars, cacheVars, routerVars, sanVars>>

\* Mutant: tool_args = cached_args, so that the room is set on the stored
\* arguments.
StoredArgs_Shared(cached_args, room) ==
    WithRoom(cached_args, room)

\* Lines 213-214: what tool_args["room"] = room leaves of the arguments the
\* table holds; tool_args is a copy of them.
StoredArgs(cached_args, room) ==
    cached_args

\* The table after execute_tool was called for the entry the cache returned.
AfterHit(table, got, room) ==
    [i \in DOMAIN table |->
        IF table[i].key = got.key
        THEN [key |-> table[i].key,
              data |-> [k \in DOMAIN table[i].data |->
                            IF k = "args" THEN StoredArgs(table[i].data.args, room)
                            ELSE table[i].data[k]]]
        ELSE table[i]]

\* Lines 204-218: the cache is asked; on a hit the cached tool is executed
\* with the current room and its text is returned.
PipeCache(outcome) ==
    /\ pipe.pc = "cache"
    /\ cachePhase = "ready"
    /\ lastGet' = GetCachedTool(pipe.text, CacheThreshold)
    /\ cache_dict' = IF lastGet'.hit THEN AfterHit(cache_dict, lastGet', pipe.room)
                     ELSE cache_dict
    /\ UNCHANGED <<cachePhase, encoder, remote, utterance_texts, utterance_matrix,
                   loaded, firstAdd, readded, puts, lastAdd>>
    /\ UNCHANGED <<corrVars, routerVars, sanVars>>
    /\ LET got == GetCachedTool(pipe.text, CacheThreshold)
           tool_args == WithRoom(got.args, pipe.room)
       IN  pipe' =
            IF got.hit
            THEN [pipe EXCEPT
                    !.pc = "publish",
                    !.steps = @ \cup {"cache", "execute"},
                    !.got = got,
                    !.calls = <<[tool |-> got.tool, args |-> tool_args]>>,
                    !.response = ExecuteTool(got.tool, tool_args, outcome)]
            ELSE [pipe EXCEPT
                    !.pc = "router",
                    !.steps = @ \cup {"cache"},
                    !.got = got]

\* Lines 220-235: the router is asked; on the fast path the table's tool is
\* executed with the current room and its text is returned.
PipeRouter(details, outcome) ==
    /\ pipe.pc = "router"
    /\ LET entry == FastPathMap[details.matched_text]
           tool_args == WithRoom(entry.args, pipe.room)
       IN  pipe' =
            IF FastPath(details.matched_text, details.score)
            THEN [pipe EXCEPT
                    !.pc = "publish",
                    !.steps = @ \cup {"router", "fast", "execute"},
                    !.router = details,
                    !.calls = <<[tool |-> entry.tool, args |-> tool_args]>>,
                    !.response = ExecuteTool(entry.tool, tool_args, outcome)]
            ELSE [pipe EXCEPT
                    !.pc = "llm",
                    !.steps = @ \cup {"router"},
                    !.router = details]
    /\ UNCHANGED <<corrVars, cacheVars, routerVars, sanVars>>

\* The answers the model can give when offered the tools given: at most
\* MaxToolCalls calls of offered tools.
ToolCallLists(offered) ==
    UNION {[1..n -> {call \in LlmCalls : call.tool \in offered}] :
                n \in 0..MaxToolCalls}

RECURSIVE LastText(_, _, _)
\* Lines 177-190: every tool call is executed in order and the text of the
\* last one is kept; without tool calls the text is msg.content.
LastText(tool_calls, outcomes, content) ==
    IF tool_calls = <<>> THEN content
    ELSE ExecuteTool(tool_calls[Len(tool_calls)].tool,
                     tool_calls[Len(tool_calls)].args,
                     outcomes[Len(tool_calls)])

\* run_llm_inference (lines 120-195) as called at line 239: the tools of the
\* route are offered, the model answers or the request raises, the tool calls
\* are executed, and an empty text is replaced by the fixed phrase.
PipeLlm ==
    /\ pipe.pc = "llm"
    /\ LET offered == ActiveTools(pipe.router.route) IN
       \/ pipe' = [pipe EXCEPT !.pc = "except",
                               !.steps = @ \cup {"llm"},
                               !.offered = offered]
       \/ \E tool_calls \in ToolCallLists(offered), content \in LlmContents :
          \E outcomes \in [DOMAIN tool_calls -> ToolOutcomes] :
            pipe' = [pipe EXCEPT
                        !.pc = IF tool_calls # <<>> THEN "learn" ELSE "publish",
                        !.steps = @ \cup {"llm"} \cup
                                  (IF tool_calls # <<>> THEN {"execute"} ELSE {}),
                        !.offered = offered,
                        !.calls = tool_calls,
                        !.first_failed =
                            /\ tool_calls # <<>>
                            /\ Failed(tool_calls[1].tool, outcomes[1]),
                        !.response = OrFallback(LastText(tool_calls, outcomes, content))]
    /\ UNCHANGED <<corrVars, cacheVars, routerVars, sanVars>>

\* Lines 244-249, one round of the loop: cache add for the next executed tool
\* call, with the room removed.  A failed remote write raises out of the loop.
PipeLearn(put) ==
    /\ pipe.pc = "learn"
    /\ LET tool == pipe.calls[Len(pipe.adds) + 1]
           function_args == PopRoom(tool.args)
           raises == AddWrites(cache_dict, Normalize(pipe.text)) /\ put # "ok"
       IN  /\ AddToCache(pipe.text, tool.tool, function_args, put)
           /\ pipe' = [pipe EXCEPT
                        !.pc = IF raises THEN "except"
                               ELSE IF Len(pipe.adds) + 1 = Len(pipe.calls)
                               THEN "publish"
                               ELSE "learn",
                        !.steps = @ \cup {"add"},
                        !.adds = Append(@, [utterance |-> pipe.text,
                                            tool |-> tool.tool,
                                            args |-> function_args])]

\* publish_response (lines 254-267) as called at line 306: actions is empty,
\* so the one publish is tts-generate; it returns or raises.
PipePublish ==
    /\ pipe.pc = "publish"
    /\ \E outcome \in {"returns", "raises"} :
        pipe' = IF outcome = "returns"
                THEN [pipe EXCEPT !.pc = "done", !.tts = pipe.response]
                ELSE [pipe EXCEPT !.pc = "except"]
    /\ UNCHANGED <<corrVars, cacheVars, routerVars, sanVars>>

\* Lines 308-312: the except block publishes the session-end.
PipeExcept ==
    /\ pipe.pc = "except"
    /\ pipe' = [pipe EXCEPT !.pc = "done", !.finished = @ + 1]
    /\ UNCHANGED <<corrVars, cacheVars, routerVars, sanVars>>

\* A stored table whose entry holds a room argument.
StoredRoomTable ==
    <<[key |-> <<"c">>,
       data |-> [tool |-> "control_light",
                 args |-> [action |-> "turn_off", room |-> "office"],
                 exact_only |-> FALSE]]>>

\* Two encoders: one under which every two texts are alike (similarity 1.0),
\* one under which "ab" and "c" are not (similarity 0.8).
PipeEncoders ==
    {[k \in Keys |-> <<4, 3>>],
     [k \in Keys |-> IF k = <<"a", "b">> THEN <<10, 0>> ELSE <<4, 3>>]}

-----------------------------------------------------------------------------
(* The semantic router, semantic_router.py *)

\* Route names are sequences of characters, as utterances are: <<"a">> stands
\* for "media" and <<"b">> for "home_control".
RouteNames == {<<"a">>, <<" ", "B">>, <<"c">>}

\* The route table of lines 37-69, cut down to two routes.  As in the source,
\* some phrases are written in lower case ("licht aus": <<"c">>) and some with
\* capitals ("Tischlampe aus": <<"D">>).
DefaultRoutes ==
    << [route |-> <<"a">>, phrases |-> << <<"a", "b">> >>],
       [route |-> <<"b">>, phrases |-> << <<"c">>, <<"D">> >>] >>

\* A routes.json written earlier: one route with a phrase, one without any.
StoredRoutes ==
    << [route |-> <<"b">>, phrases |-> << <<"a", "b">> >>],
       [route |-> <<"d">>, phrases |-> <<>>] >>

\* The documents the store can hold at startup; Dumps(<<>>) is the document {}.
RouterRemotes ==
    {Absent, Corrupt, Dumps(<<>>), Dumps(DefaultRoutes), Dumps(StoredRoutes)}

\* The outcome of get_object besides the object itself: a ClientError other
\* than NoSuchKey.
GetErrors == {"none", "other"}

\* self.encoder.encode: a fixed function of the text.  The vectors are chosen
\* so that similarities of 0.0, 0.6, 0.8, 0.96 and 1.0 occur.
RouterEncode(text) ==
    IF text = <<>> THEN <<0, 0>>
    ELSE IF text[1] = "a" THEN <<10, 0>>
    ELSE IF text[1] = "c" THEN <<0, 10>>
    ELSE IF text[1] = "d" THEN <<4, 3>>
    ELSE <<3, 4>>

\* self.threshold = 0.55 (line 19).  Similarities are whole 25ths, of which
\* those from 14/25 on are at least 0.55 (13.75/25).
RouterThreshold == 14

\* Mutant: every best row is good enough.
MeetsThreshold_Always(best_score) ==
    TRUE

\* best_score >= self.threshold
MeetsThreshold(best_score) ==
    best_score >= RouterThreshold

\* encode, then the safe normalization, for a list of phrases.
RouterRows(phrases) ==
    [i \in DOMAIN phrases |-> NormalizeVector(RouterEncode(phrases[i]))]

\* "utterance in phrases"
InPhrases(utterance, phrases) ==
    \E i \in DOMAIN phrases : phrases[i] = utterance

\* "route_name in self.route_dict"
HasRoute(dict, route_name) ==
    \E i \in DOMAIN dict : dict[i].route = route_name

\* Lines 94-109: the loop over the table, over its first n routes.
RECURSIVE BuildRoutes(_, _)
BuildRoutes(dict, n) ==
    IF n = 0 THEN [routes |-> <<>>, rows |-> <<>>, labels |-> <<>>, texts |-> <<>>]
    ELSE LET before == BuildRoutes(dict, n - 1)
             entry == dict[n]
         IN  IF entry.phrases = <<>> THEN before
             ELSE [routes |-> IF InPhrases(entry.route, before.routes)
                              THEN before.routes
                              ELSE Append(before.routes, entry.route),
                   rows |-> before.rows \o RouterRows(entry.phrases),
                   labels |-> before.labels
                              \o [i \in DOMAIN entry.phrases |-> entry.route],
                   texts |-> before.texts \o entry.phrases]

\* The router's self.utterance_matrix is None: a matrix it builds has a row.
NoRows == <<>>

\* What get_route returns, with the similarity it found: a route, or None.
Route(route_name, score) ==
    [found |-> TRUE, route |-> route_name, score |-> score]

NoRoute(score) ==
    [found |-> FALSE, route |-> <<>>, score |-> score]

\* No call yet.
NoClassify == NoRoute(-1)

NoTeach ==
    [route_name |-> <<>>, utterance |-> <<>>,
     result |-> [kind |-> "none", utterance |-> <<>>, route |-> <<>>]]

\* The three messages learn_new_phrase returns, and the exception it raises.
Known(utterance, route_name) ==
    [kind |-> "known", utterance |-> utterance, route |-> route_name]

Conflict(utterance, existing_route) ==
    [kind |-> "conflict", utterance |-> utterance, route |-> existing_route]

Learned(utterance, route_name) ==
    [kind |-> "learned", utterance |-> utterance, route |-> route_name]

TeachRaised(utterance, route_name) ==
    [kind |-> "raises", utterance |-> utterance, route |-> route_name]

\* Lines 13-71 up to the call of _load_from_s3.
InitRouterWith(remotes) ==
    /\ routerPhase = "new"
    /\ routerRemote \in remotes
    /\ route_dict = DefaultRoutes
    /\ routes = <<>>
    /\ router_matrix = NoRows
    /\ utterance_routes = <<>>
    /\ lastTeach = NoTeach
    /\ row_texts = <<>>
    /\ lastRoute = NoClassify

InitRouter == InitRouterWith(RouterRemotes)

InitRouterIdle == InitRouterWith({Absent})

\* _load_from_s3, lines 73-113.
RouterLoadFromS3(get_error, put) ==
    /\ routerPhase = "new"
    /\ LET missing == get_error = "none" /\ routerRemote = Absent
           parsed == get_error = "none" /\ routerRemote.kind = "json"
           dict == IF parsed THEN Loads(routerRemote) ELSE route_dict
           built == BuildRoutes(dict, Len(dict))
       IN  IF missing /\ put # "ok"
           THEN \* line 83 raises: the constructor does not return
                /\ routerPhase' = "failed"
                /\ UNCHANGED <<routerRemote, route_dict, routes, router_matrix,
                               utterance_routes, row_texts>>
           ELSE /\ routerPhase' = "ready"
                /\ row_texts' = built.texts
                /\ route_dict' = dict
                /\ routerRemote' = IF missing THEN Dumps(dict) ELSE routerRemote
                /\ routes' = built.routes
                /\ utterance_routes' = built.labels
                /\ router_matrix' = IF built.rows = <<>> THEN NoRows ELSE built.rows
    /\ UNCHANGED <<lastTeach, lastRoute>>
    /\ UNCHANGED <<corrVars, cacheVars, pipeVars, sanVars>>

\* Mutant: the new row becomes the matrix.
AppendRow_Replace(matrix, row) ==
    <<row>>

\* Lines 146-149: the row is the matrix if there was none, and is stacked
\* under it otherwise.
AppendRow(matrix, row) ==
    IF matrix = NoRows THEN <<row>> ELSE Append(matrix, row)

\* learn_new_phrase, lines 121-154.
LearnNewPhrase(route_name, utterance, put) ==
    /\ routerPhase = "ready"
    /\ LET name == Normalize(route_name)
           text == Normalize(utterance)
           hits == {i \in DOMAIN route_dict : InPhrases(text, route_dict[i].phrases)}
       IN  IF hits # {}
           THEN LET first == CHOOSE i \in hits : \A j \in hits : i <= j
                    existing_route == route_dict[first].route
                IN  /\ lastTeach' =
                           [route_name |-> route_name, utterance |-> utterance,
                            result |-> IF existing_route = name
                                       THEN Known(text, name)
                                       ELSE Conflict(text, existing_route)]
                    /\ UNCHANGED <<routerRemote, route_dict, routes, router_matrix,
                                   utterance_routes, row_texts>>
           ELSE LET created == ~HasRoute(route_dict, name)
                    withRoute == IF created
                                 THEN Append(route_dict,
                                             [route |-> name, phrases |-> <<>>])
                                 ELSE route_dict
                    row == NormalizeVector(RouterEncode(text))
                IN  /\ route_dict' =
                           [i \in DOMAIN withRoute |->
                               IF withRoute[i].route = name
                               THEN [withRoute[i] EXCEPT !.phrases = Append(@, text)]
                               ELSE withRoute[i]]
                    /\ routes' = IF created THEN Append(routes, name) ELSE routes
                    /\ router_matrix' = AppendRow(router_matrix, row)
                    /\ row_texts' = Append(row_texts, text)
                    /\ utterance_routes' = Append(utterance_routes, name)
                    /\ routerRemote' = IF put = "ok" THEN Dumps(route_dict')
                                       ELSE routerRemote
                    /\ lastTeach' =
                           [route_name |-> route_name, utterance |-> utterance,
                            result |-> IF put = "ok" THEN Learned(text, name)
                                       ELSE TeachRaised(text, name)]
    /\ UNCHANGED <<routerPhase, lastRoute>>
    /\ UNCHANGED <<corrVars, cacheVars, pipeVars, sanVars>>

\* get_route, lines 156-176; the query is lower-cased and not stripped.
GetRoute(query) ==
    IF router_matrix = NoRows THEN NoRoute(0)
    ELSE LET query_normalized == NormalizeVector(RouterEncode(Lower(query)))
             similarities == [i \in DOMAIN router_matrix |->
                                Dot(router_matrix[i], query_normalized)]
             best_match_idx == ArgMax(similarities)
             best_score == similarities[best_match_idx]
         IN  IF MeetsThreshold(best_score)
             THEN Route(utterance_routes[best_match_idx], best_score)
             ELSE NoRoute(best_score)

\* A call of get_route.
Classify(query) ==
    /\ routerPhase = "ready"
    /\ lastRoute' = GetRoute(query)
    /\ UNCHANGED <<routerPhase, routerRemote, route_dict, routes, router_matrix,
                   utterance_routes, lastTeach, row_texts>>
    /\ UNCHANGED <<corrVars, cacheVars, pipeVars, sanVars>>

-----------------------------------------------------------------------------
(* The sanitizer, sanitizer.py *)

\* Texts are sequences of characters.  The lists update_vocabulary is given:
\* "abc" is too short to be kept, "ABCD" is kept in lower case,
\* "ab ab ab cd" is a name of four words.
VocabularyLists ==
    { << <<"a", "b", "c", "d">>, <<"a", "b", "c", "d", "b", "c">>, <<"a", "b", "c">> >>,
      << <<"a", "b", " ", "a", "b", " ", "a", "b", " ", "c", "d">>,
         <<"A", "B", "C", "D">> >> }

\* Transcripts that are not made of vocabulary entries: a word followed by a
\* letter, a word cut in two, a word with two letters swapped, a text with
\* capitals and blanks around it, the empty text.
OtherTexts ==
    { <<"a", "b", "c", "d", " ", "b">>,
      <<"a", "b", " ", "c", "d">>,
      <<"a", "b", "d", "c">>,
      <<" ", "A", "b", "C", "d", " ", " ", "b", "c", " ">>,
      <<>> }

\* Fractions: the dice_threshold and the scores.
Fraction(num, den) == [num |-> num, den |-> den]

\* settings.dice_coefficient: 0.5, 0.75 (the default of line 7) and 1.0.
DiceThresholds == {Fraction(1, 2), Fraction(3, 4), Fraction(1, 1)}

\* a > b, and a >= b, for fractions.
Greater(a, b) == a.num * b.den > b.num * a.den

AtLeast(a, b) == a.num * b.den >= b.num * a.den

\* str.split(): the words between blanks.
SplitWords(text) ==
    LET begins == {i \in DOMAIN text :
                        text[i] # " " /\ (i = 1 \/ text[i - 1] = " ")}
        Begin(n) == CHOOSE b \in begins : Cardinality({c \in begins : c < b}) = n - 1
        EndOf(b) == CHOOSE e \in b..Len(text) :
                        /\ \A k \in b..e : text[k] # " "
                        /\ e = Len(text) \/ text[e + 1] = " "
    IN  [n \in 1..Cardinality(begins) |-> SubSeq(text, Begin(n), EndOf(Begin(n)))]

RECURSIVE JoinWords(_)
\* " ".join(words)
JoinWords(words) ==
    IF words = <<>> THEN <<>>
    ELSE IF Len(words) = 1 THEN words[1]
    ELSE words[1] \o <<" ">> \o JoinWords(Tail(words))

\* _get_trigrams, lines 18-21.
GetTrigrams(text) ==
    LET cleaned == SelectSeq(Lower(text), LAMBDA c : c # " ")
    IN  {SubSeq(cleaned, i, i + 2) : i \in 1..(Len(cleaned) - 2)}

\* Mutant: the quotient without the test for empty sets.
DiceCoefficient_Unguarded(str1, str2) ==
    Fraction(2 * Cardinality(GetTrigrams(str1) \cap GetTrigrams(str2)),
             Cardinality(GetTrigrams(str1)) + Cardinality(GetTrigrams(str2)))

\* _dice_coefficient, lines 23-32.
DiceCoefficient(str1, str2) ==
    LET tri1 == GetTrigrams(str1)
        tri2 == GetTrigrams(str2)
    IN  IF tri1 = {} \/ tri2 = {} THEN Fraction(0, 1)
        ELSE Fraction(2 * Cardinality(tri1 \cap tri2),
                      Cardinality(tri1) + Cardinality(tri2))

\* update_vocabulary, lines 11-16: the words that are added, in lower case.
KeptWords(words) ==
    {Lower(words[k]) : k \in {j \in DOMAIN words : Len(words[j]) > 3}}

\* The orders in which a set can be iterated.
Orderings(set) ==
    {order \in [1..Cardinality(set) -> set] :
        \A i, j \in DOMAIN order : order[i] = order[j] => i = j}

\* Lines 41-43: no match yet.
NoMatch == [found |-> FALSE, match |-> <<>>, score |-> Fraction(0, 1), window |-> 1]

\* Lines 46-50: the windows that fit at position i, largest first, each with
\* every vocabulary word in the order of the iteration.
Candidates(words, i, vocabulary) ==
    LET fits == SelectSeq(<<3, 2, 1>>, LAMBDA w : i + w <= Len(words))
    IN  [n \in 1..(Len(fits) * Len(vocabulary)) |->
            [window |-> fits[((n - 1) \div Len(vocabulary)) + 1],
             vocab_word |-> vocabulary[((n - 1) % Len(vocabulary)) + 1]]]

\* phrase_chunk = " ".join(words[i : i + window_size])
Chunk(words, i, window) ==
    JoinWords(SubSeq(words, i + 1, i + window))

\* Mutant: the first candidate that scores at all is kept.
Improves_FirstOnly(score, best_overall_score) ==
    Greater(score, best_overall_score) /\ best_overall_score.num = 0

\* Line 56: score > best_overall_score
Improves(score, best_overall_score) ==
    Greater(score, best_overall_score)

RECURSIVE BestMatch(_, _, _, _)
\* Lines 46-59: the best match after the first n candidates.
BestMatch(words, i, candidates, n) ==
    IF n = 0 THEN NoMatch
    ELSE LET before == BestMatch(words, i, candidates, n - 1)
             score == DiceCoefficient(Chunk(words, i, candidates[n].window),
                                      candidates[n].vocab_word)
         IN  IF Improves(score, before.score)
             THEN [found |-> TRUE, match |-> candidates[n].vocab_word,
                   score |-> score, window |-> candidates[n].window]
             ELSE before

NoSanitize ==
    [pc |-> "idle", text |-> <<>>, words |-> <<>>, i |-> 0, result_words |-> <<>>,
     out |-> <<>>, used |-> <<>>, covered |-> FALSE, again |-> FALSE]

\* The strings _dice_coefficient is called with: with and without trigrams,
\* with blanks, with capitals, with a trigram that repeats.
DiceTexts ==
    { <<>>,
      <<"a", "b">>,
      <<"a", " ", "b">>,
      <<"a", "b", "c">>,
      <<"A", "b", "C">>,
      <<"a", " ", "b", "c">>,
      <<"b", "c", "d">>,
      <<"a", "b", "c", "d">>,
      <<"a", "b", "a", "b", "a">>,
      <<"a", "b", "c", "a", "b", "c">> }

NoDice == [called |-> FALSE, str1 |-> <<>>, str2 |-> <<>>, score |-> Fraction(0, 1)]

\* NgramSanitizer(dice_threshold=...), lines 7-9.
InitSanitizerWith(thresholds) ==
    /\ dice_threshold \in thresholds
    /\ known_vocabulary = <<>>
    /\ san = NoSanitize
    /\ lastDice = NoDice

InitSanitizer == InitSanitizerWith(DiceThresholds)

InitSanitizerIdle == InitSanitizerWith({Fraction(3, 4)})

\* update_vocabulary(words), as called once at startup (main.py:327).
UpdateVocabulary(words) ==
    /\ known_vocabulary = <<>>
    /\ san.pc = "idle"
    /\ known_vocabulary' \in Orderings(KeptWords(words))
    /\ UNCHANGED <<dice_threshold, san, lastDice>>
    /\ UNCHANGED <<corrVars, cacheVars, pipeVars, routerVars>>

\* A call _dice_coefficient(str1, str2), lines 23-32.
Dice(str1, str2) ==
    /\ lastDice' = [called |-> TRUE, str1 |-> str1, str2 |-> str2,
                    score |-> DiceCoefficient(str1, str2)]
    /\ UNCHANGED <<dice_threshold, known_vocabulary, san>>
    /\ UNCHANGED <<corrVars, cacheVars, pipeVars, routerVars>>

\* The texts made of at most MaxPhrases vocabulary entries.
CoveredTexts ==
    {JoinWords(phrases) :
        phrases \in UNION {[1..n -> {known_vocabulary[k] : k \in DOMAIN known_vocabulary}] :
                                n \in 1..MaxPhrases}}

\* Lines 36-39 of a call sanitize(text).
SanitizeBegin(text, covered, again) ==
    san' = [NoSanitize EXCEPT
                !.pc = "scan",
                !.text = text,
                !.words = SplitWords(Lower(text)),
                !.used = [k \in DOMAIN SplitWords(Lower(text)) |-> 0],
                !.covered = covered,
                !.again = again]

\* A call sanitize(text).
Sanitize(text) ==
    /\ san.pc \in {"idle", "done"}
    /\ SanitizeBegin(text, text \in CoveredTexts, FALSE)
    /\ UNCHANGED <<dice_threshold, known_vocabulary, lastDice>>
    /\ UNCHANGED <<corrVars, cacheVars, pipeVars, routerVars>>

\* A call of sanitize on the text the last call returned.
SanitizeAgain ==
    /\ san.pc = "done"
    /\ ~san.again
    /\ SanitizeBegin(san.out, san.covered, TRUE)
    /\ UNCHANGED <<dice_threshold, known_vocabulary, lastDice>>
    /\ UNCHANGED <<corrVars, cacheVars, pipeVars, routerVars>>

\* One round of the while loop, lines 40-73.
SanitizeScan ==
    /\ san.pc = "scan"
    /\ san.i < Len(san.words)
    /\ LET candidates == Candidates(san.words, san.i, known_vocabulary)
           best == BestMatch(san.words, san.i, candidates, Len(candidates))
           replaced == AtLeast(best.score, dice_threshold) /\ best.found
           window == IF replaced THEN best.window ELSE 1
       IN  san' = [san EXCEPT
                    !.result_words =
                        Append(@, IF replaced THEN best.match ELSE san.words[san.i + 1]),
                    !.i = @ + window,
                    !.used = [k \in DOMAIN @ |->
                                IF k > san.i /\ k <= san.i + window
                                THEN @[k] + 1 ELSE @[k]]]
    /\ UNCHANGED <<dice_threshold, known_vocabulary, lastDice>>
    /\ UNCHANGED <<corrVars, cacheVars, pipeVars, routerVars>>

\* Line 75, once the loop has ended.
SanitizeReturn ==
    /\ san.pc = "scan"
    /\ ~(san.i < Len(san.words))
    /\ san' = [san EXCEPT !.pc = "done", !.out = JoinWords(san.result_words)]
    /\ UNCHANGED <<dice_threshold, known_vocabulary, lastDice>>
    /\ UNCHANGED <<corrVars, cacheVars, pipeVars, routerVars>>

-----------------------------------------------------------------------------

RunIds == 1..MaxEvents

Init ==
    /\ InitCorrelator
    /\ InitCacheIdle
    /\ InitPipe
    /\ InitRouterIdle
    /\ InitSanitizerIdle

Next ==
    \/ NoRoomMessage
    \/ \E room \in Rooms : Wake(room)
    \/ \E room \in Rooms : Finished(room)
    \/ \E room \in Rooms, field \in PayloadTexts : Transcript(room, field)
    \/ \E room \in Rooms, field \in PayloadSpeakers : Speaker(room, field)
    \/ \E room \in Rooms : TaskNotReady(room)
    \/ \E room \in Rooms : TaskPop(room)
    \/ \E room \in Rooms, i \in RunIds : TaskAbort(room, i)
    \/ \E room \in Rooms, i \in RunIds : TaskCall(room, i)
    \/ \E room \in Rooms, i \in RunIds : TaskResolve(room, i)
    \/ \E room \in Rooms, i \in RunIds : TaskPublish(room, i)
    \/ \E room \in Rooms, i \in RunIds : TaskExcept(room, i)

Spec == Init /\ [][Next]_vars

\* The cache alone: construction from any remote object, then adds and gets.
CacheInit ==
    /\ InitCorrelator
    /\ InitCache
    /\ InitPipe
    /\ InitRouterIdle
    /\ InitSanitizerIdle

CacheNext ==
    \/ LoadFromS3 /\ UNCHANGED pipeVars
    \/ \E utterance \in Utterances, tool_name \in Tools, tool_args \in ArgSets,
          put \in {"ok", "client_error"} :
            AddToCache(utterance, tool_name, tool_args, put) /\ UNCHANGED pipeVars
    \/ \E query \in Queries, threshold \in Thresholds :
            GetCached(query, threshold) /\ UNCHANGED pipeVars

CacheSpec == CacheInit /\ [][CacheNext]_vars

\* The pipeline on the cache: construction, then one call of
\* resolve_and_execute_intent after the other.
PipeInit ==
    /\ InitCorrelator
    /\ InitCacheWith(PipeEncoders, {Absent, Dumps(StoredRoomTable)})
    /\ InitPipe
    /\ InitRouterIdle
    /\ InitSanitizerIdle

PipeNext ==
    \/ LoadFromS3 /\ UNCHANGED pipeVars
    \/ \E room \in Rooms, text \in Utterances : PipeStart(room, text)
    \/ \E outcome \in ToolOutcomes : PipeCache(outcome)
    \/ \E details \in GetMatchDetails, outcome \in ToolOutcomes :
            PipeRouter(details, outcome)
    \/ PipeLlm
    \/ \E put \in {"ok", "client_error"} : PipeLearn(put)
    \/ PipePublish
    \/ PipeExcept

PipeSpec == PipeInit /\ [][PipeNext]_vars

\* The router alone: construction from any remote object, then teaching.
RouterInit ==
    /\ InitCorrelator
    /\ InitCacheIdle
    /\ InitPipe
    /\ InitRouter
    /\ InitSanitizerIdle

RouterNext ==
    \/ \E get_error \in GetErrors, put \in {"ok", "client_error"} :
            RouterLoadFromS3(get_error, put)
    \/ \E route_name \in RouteNames, utterance \in Queries,
          put \in {"ok", "client_error"} :
            LearnNewPhrase(route_name, utterance, put)
    \/ \E query \in Queries : Classify(query)

RouterSpec == RouterInit /\ [][RouterNext]_vars

\* The cache and the router on a store that takes every write of an add and
\* of a teach: the two constructions, then adds and teaches.
StoreUtterances == {<<"c">>, <<"D">>}

StoreInit ==
    /\ InitCorrelator
    /\ InitCacheWith({[k \in Keys |-> <<4, 3>>]}, {Absent, Dumps(StoredRoomTable)})
    /\ InitPipe
    /\ InitRouterWith({Absent, Dumps(StoredRoutes)})
    /\ InitSanitizerIdle

StoreNext ==
    \/ LoadFromS3 /\ UNCHANGED pipeVars
    \/ \E get_error \in GetErrors : RouterLoadFromS3(get_error, "ok")
    \/ \E utterance \in StoreUtterances, tool_name \in Tools, tool_args \in ArgSets :
            AddToCache(utterance, tool_name, tool_args, "ok") /\ UNCHANGED pipeVars
    \/ \E route_name \in RouteNames, utterance \in StoreUtterances :
            LearnNewPhrase(route_name, utterance, "ok")

StoreSpec == StoreInit /\ [][StoreNext]_vars

\* The sanitizer alone: construction, the vocabulary update, then calls of
\* sanitize, on any text and on the text the call before returned.
SanitizerInit ==
    /\ InitCorrelator
    /\ InitCacheIdle
    /\ InitPipe
    /\ InitRouterIdle
    /\ InitSanitizer

SanitizerNext ==
    \/ \E words \in VocabularyLists : UpdateVocabulary(words)
    \/ \E text \in OtherTexts \cup CoveredTexts : Sanitize(text)
    \/ SanitizeAgain
    \/ SanitizeScan
    \/ SanitizeReturn

SanitizerSpec == SanitizerInit /\ [][SanitizerNext]_vars

\* The similarity alone: calls of _dice_coefficient on any two strings.
DiceInit == SanitizerInit

DiceNext == \E str1, str2 \in DiceTexts : Dice(str1, str2)

DiceSpec == DiceInit /\ [][DiceNext]_vars


-----------------------------------------------------------------------------
(* Event correlator: properties *)

Run(room, i) == runs[room][i]

AllRuns == {<<room, i>> : room \in Rooms, i \in RunIds}

IsRun(ri) == ri[2] \in DOMAIN runs[ri[1]]

Ended(run) == run.pc \in {"done", "crashed"}

IsBlank(text) == HasStrip(text) /\ Strip(text) = ""

\* C1: when the messages of a room are exactly wake, speaker(S), transcript(T)
\* or wake, transcript(T), speaker(S), with T a non-blank text, at most one
\* unit is popped for the room, it is (T, S) and it is handed to the pipeline;
\* the room has no entry after the pop; and once every task created for the
\* room has run, the unit has been popped.
C1_OneUnitPerSession ==
    \A room \in Rooms :
        scenario[room].st \in {"wst", "wts"} =>
            /\ Len(runs[room]) <= 1
            /\ \A i \in DOMAIN runs[room] :
                    /\ Run(room, i).text = scenario[room].T
                    /\ Run(room, i).speaker_id = scenario[room].S
                    /\ Run(room, i).pipeline
                    /\ ~Run(room, i).entryLeft
                    /\ room \notin DOMAIN pending_intents
            /\ starts[room] = 0 => Len(runs[room]) = 1

C1_Witness ==
    /\ scenario["kitchen"].st = "wst"
    /\ starts["kitchen"] = 0
    /\ Len(runs["kitchen"]) = 1
    /\ Run("kitchen", 1).text = "turn off light"
    /\ Run("kitchen", 1).speaker_id = "bob"
    /\ "kitchen" \notin DOMAIN pending_intents

\* C2: no popped entry holds a text or a speaker_id that an earlier pop already
\* took: every transcript message and every speaker message goes into at most
\* one unit, whatever the order in which tasks and messages run.
C2_DispatchedAtMostOnce ==
    \A ri \in AllRuns :
        IsRun(ri) => ~Run(ri[1], ri[2]).reused /\ ~Run(ri[1], ri[2]).entryLeft

\* A unit was popped while another readiness check of the room is still to run.
C2_Witness ==
    \E room \in Rooms :
        /\ Len(runs[room]) = 1
        /\ starts[room] >= 1
        /\ fieldHist[room].text = "used"
        /\ fieldHist[room].speaker_id = "used"

\* C3: a field set before a wake of the room is None in the table after the
\* wake, and no popped unit holds a field set before the room's last wake, in
\* particular none combines a transcript and a speaker separated by a wake.
C3_WakeDiscards ==
    /\ \A room \in DOMAIN pending_intents :
            \A key \in {"text", "speaker_id"} :
                fieldHist[room][key] = "old" => Get(pending_intents[room], key) = None
    /\ \A ri \in AllRuns :
            IsRun(ri) => ~Run(ri[1], ri[2]).separated /\ ~Run(ri[1], ri[2]).stale

\* transcript, wake, speaker: every task has run and nothing was popped.
C3_Witness ==
    \E room \in Rooms :
        /\ fieldHist[room].text = "old"
        /\ fieldHist[room].speaker_id = "live"
        /\ fieldHist[room].sep
        /\ Get(pending_intents[room], "speaker_id") = "bob"
        /\ starts[room] = 0
        /\ runs[room] = <<>>

\* C4: a popped entry whose transcript is empty or whitespace-only is never
\* handed to the pipeline; its entry is removed, no tts-generate is published
\* for it, and its run ends with exactly one session-end published.
C4_BlankAborts ==
    \A ri \in AllRuns :
        (IsRun(ri) /\ IsBlank(Run(ri[1], ri[2]).text)) =>
            LET run == Run(ri[1], ri[2]) IN
            /\ ~run.pipeline
            /\ run.pc \in {"abort", "done"}
            /\ ~run.entryLeft
            /\ run.nTts = 0
            /\ run.nFinished = IF run.pc = "done" THEN 1 ELSE 0

C4_Witness ==
    \E ri \in AllRuns :
        /\ IsRun(ri)
        /\ Run(ri[1], ri[2]).text = "  "
        /\ Run(ri[1], ri[2]).pc = "done"
        /\ Run(ri[1], ri[2]).nFinished = 1

\* C5: a run in which a step raised has published a session-end by the time
\* it ends.
C5_RaiseStillSignalsEnd ==
    \A ri \in AllRuns :
        (IsRun(ri) /\ Ended(Run(ri[1], ri[2])) /\ Run(ri[1], ri[2]).raisedAt # "none")
            => Run(ri[1], ri[2]).nFinished >= 1

\* C6: no run of a popped entry ends without a tts-generate or a session-end.
C6_NoSilentEnd ==
    \A ri \in AllRuns :
        (IsRun(ri) /\ Ended(Run(ri[1], ri[2])))
            => Run(ri[1], ri[2]).nTts + Run(ri[1], ri[2]).nFinished >= 1

-----------------------------------------------------------------------------
(* Semantic cache: properties *)

\* The entry's exact_only flag as stored.
Flagged(data) ==
    "exact_only" \in DOMAIN data /\ data.exact_only

Similarity(text1, text2) ==
    Dot(NormalizeVector(encoder[text1]), NormalizeVector(encoder[text2]))

\* C7: an utterance learned by add(U, T, A) (no entry for its key was loaded or
\* added before) is returned by get(U, threshold) as (T, A, 1.0) for every
\* threshold, under lower-casing and trimming of U, whatever adds followed.
C7_LearnedIsReturned ==
    cachePhase = "ready" =>
        \A query \in Queries, threshold \in Thresholds :
            Normalize(query) \in DOMAIN firstAdd =>
                LET got == GetCachedTool(query, threshold) IN
                /\ got.hit
                /\ got.tool = firstAdd[Normalize(query)].tool
                /\ got.args = firstAdd[Normalize(query)].args
                /\ got.score = One

\* A learned key was added again and a get has returned it.
C7_Witness ==
    /\ cachePhase = "ready"
    /\ readded
    /\ <<"a", "b">> \in DOMAIN firstAdd
    /\ lastGet = GetCachedTool(<<" ", "A", "b", " ">>, 26)
    /\ lastGet.hit

\* C8: get never returns an entry flagged exact_only for a query whose
\* normalized text is not the entry's key, and a query whose normalized text
\* is a key gets that entry with score 1.0, flagged or not.
C8_ExactOnlyNeverFuzzy ==
    cachePhase = "ready" =>
        \A query \in Queries, threshold \in Thresholds :
            LET got == GetCachedTool(query, threshold) IN
            /\ (got.hit /\ Flagged(Lookup(cache_dict, got.key)))
                    => got.key = Normalize(query)
            /\ Normalize(query) \in KeysOf(cache_dict) =>
                    /\ got.hit
                    /\ got.key = Normalize(query)
                    /\ got.score = One
                    /\ got.tool = Lookup(cache_dict, got.key).tool
                    /\ got.args = Lookup(cache_dict, got.key).args

\* A get for a query that is no key, while an exact_only entry has similarity
\* 1.0 to the query, has returned no match.
C8_Witness ==
    /\ cachePhase = "ready"
    /\ <<"d">> \notin KeysOf(cache_dict)
    /\ \E key \in KeysOf(cache_dict) :
        /\ Flagged(Lookup(cache_dict, key))
        /\ Similarity(key, <<"d">>) = One
    /\ lastGet = GetCachedTool(<<"D">>, 23)
    /\ ~lastGet.hit

\* C9: the fuzzy index key list holds exactly the keys whose entry is not
\* exact_only, each once, and the matrix has one row per key of the list, the
\* normalized embedding of that key, or is None when the list is empty.
C9_IndexMatchesTable ==
    cachePhase = "ready" =>
        /\ {utterance_texts[i] : i \in DOMAIN utterance_texts}
                = {key \in KeysOf(cache_dict) : ~Flagged(Lookup(cache_dict, key))}
        /\ \A i, j \in DOMAIN utterance_texts :
                utterance_texts[i] = utterance_texts[j] => i = j
        /\ utterance_texts = <<>> => utterance_matrix = NoMatrix
        /\ utterance_texts # <<>> =>
                /\ utterance_matrix # NoMatrix
                /\ DOMAIN utterance_matrix[2] = DOMAIN utterance_texts
                /\ \A i \in DOMAIN utterance_texts :
                        utterance_matrix[2][i] = NormalizeVector(encoder[utterance_texts[i]])

\* After an add the table holds one exact_only entry and one fuzzy entry.
C9_Witness ==
    /\ cachePhase = "ready"
    /\ firstAdd # <<>>
    /\ Len(utterance_texts) = 1
    /\ Len(cache_dict) = 2

\* C10: once load has completed, and after every add, each entry's exact_only
\* flag is present and equals (the entry's tool is in the exact-only set).
C10_FlagsMatchRegistry ==
    cachePhase = "ready" =>
        \A i \in DOMAIN cache_dict :
            /\ "exact_only" \in DOMAIN cache_dict[i].data
            /\ cache_dict[i].data.exact_only = (cache_dict[i].data.tool \in ExactTools)

\* The loaded document had a wrong or missing flag, and an add followed the load.
C10_Witness ==
    /\ cachePhase = "ready"
    /\ \E i \in DOMAIN loaded :
        \/ "exact_only" \notin DOMAIN loaded[i].data
        \/ loaded[i].data.exact_only # (loaded[i].data.tool \in ExactTools)
    /\ Len(cache_dict) > Len(loaded)

\* The registry's flag for an entry: its tool is declared exact-only.
ShouldBeExact(data) == data.tool \in ExactTools

\* Some entry's stored flag is missing or differs from the registry.
Drifted(table) ==
    \E i \in DOMAIN table :
        \/ "exact_only" \notin DOMAIN table[i].data
        \/ table[i].data.exact_only # ShouldBeExact(table[i].data)

\* C11: a load that read a document with entries and returned leaves every
\* entry with its key, tool and arguments and the registry's flag, and the
\* fuzzy index built from those flags; if a stored flag was missing or wrong
\* the remote document is the corrected table, written by this load; if none
\* was, the load issued no remote write.
C11_SelfHealOnLoad ==
    [][(cachePhase = "new" /\ cachePhase' = "ready" /\ loaded' # <<>>) =>
        /\ Len(cache_dict') = Len(loaded')
        /\ \A i \in DOMAIN loaded' :
            /\ cache_dict'[i].key = loaded'[i].key
            /\ cache_dict'[i].data.tool = loaded'[i].data.tool
            /\ cache_dict'[i].data.args = loaded'[i].data.args
            /\ Flagged(cache_dict'[i].data) = ShouldBeExact(loaded'[i].data)
        /\ {utterance_texts'[i] : i \in DOMAIN utterance_texts'}
                = {loaded'[i].key : i \in {j \in DOMAIN loaded' :
                                              ~ShouldBeExact(loaded'[j].data)}}
        /\ (utterance_matrix' = NoMatrix) = (utterance_texts' = <<>>)
        /\ utterance_matrix' # NoMatrix =>
                \A i \in DOMAIN utterance_texts' :
                    utterance_matrix'[2][i] = NormalizeVector(encoder[utterance_texts'[i]])
        /\ Drifted(loaded') => (puts' >= 1 /\ remote' = Dumps(cache_dict'))
        /\ ~Drifted(loaded') => (puts' = 0 /\ remote' = remote)
    ]_vars

\* A load has read an entry stored with exact_only = false for a tool that is
\* now exact-only, corrected it, left it out of the index and written the
\* corrected table.
C11_Witness ==
    /\ cachePhase = "ready"
    /\ Len(loaded) = 1 /\ Len(cache_dict) = 1
    /\ ShouldBeExact(loaded[1].data)
    /\ "exact_only" \in DOMAIN loaded[1].data /\ ~loaded[1].data.exact_only
    /\ Flagged(cache_dict[1].data)
    /\ utterance_texts = <<>>
    /\ puts >= 1
    /\ remote = Dumps(cache_dict)

\* C12: a call add(U, T2, A2) for an utterance whose normalized key is in the
\* table leaves the table, the index texts, the matrix and the remote document
\* as they were and issues no remote write, whatever T2 and A2 are.
C12_AddIdempotent ==
    [][(cachePhase = "ready" /\ lastAdd' = "present") =>
        /\ cache_dict' = cache_dict
        /\ utterance_texts' = utterance_texts
        /\ utterance_matrix' = utterance_matrix
        /\ remote' = remote
        /\ puts' = 0
    ]_vars

\* A key that was learned has been added again, and that add wrote nothing.
C12_Witness ==
    /\ cachePhase = "ready"
    /\ readded
    /\ lastAdd = "present"
    /\ puts = 0
    /\ Len(cache_dict) = 2

\* C21: when tool_cache.json does not exist at load, the load writes once,
\* leaves the table empty and the matrix absent, and, the store having taken
\* the write, returns without an error with the empty table in the store.
C21_MissingDocumentStartsEmpty ==
    [][(cachePhase = "new" /\ remote = Absent /\ cachePhase' # "new")
       => /\ puts' = 1
          /\ cache_dict' = <<>>
          /\ utterance_texts' = <<>>
          /\ utterance_matrix' = NoMatrix
          /\ remote' # Absent => cachePhase' = "ready" /\ remote' = Dumps(<<>>)]_vars

C21_Witness ==
    /\ cachePhase = "ready"
    /\ puts = 1
    /\ loaded = <<>>
    /\ cache_dict = <<>>
    /\ utterance_matrix = NoMatrix
    /\ remote = Dumps(<<>>)
    /\ lastAdd = "none"

\* The similarity of the query to each text of the fuzzy index.
IndexScores(query) ==
    [i \in DOMAIN utterance_texts |->
        Dot(utterance_matrix[2][i], NormalizeVector(encoder[Normalize(query)]))]

\* The greatest of them.
BestScore(query) ==
    CHOOSE s \in {IndexScores(query)[i] : i \in DOMAIN utterance_texts} :
        \A i \in DOMAIN utterance_texts : IndexScores(query)[i] <= s

\* What C24 expects of get(query, threshold) when the query is no key.
ExpectedFuzzy(query, threshold, got) ==
    IF utterance_texts = <<>> THEN got = Miss(0)
    ELSE LET best == BestScore(query)
             first == CHOOSE i \in DOMAIN utterance_texts :
                        /\ IndexScores(query)[i] = best
                        /\ \A j \in 1..(i - 1) : IndexScores(query)[j] < best
             entry == Lookup(cache_dict, utterance_texts[first])
             fuzzy == IF "exact_only" \in DOMAIN entry THEN ~entry.exact_only ELSE TRUE
         IN  IF best >= threshold /\ fuzzy
             THEN got = [hit |-> TRUE, key |-> utterance_texts[first],
                         tool |-> entry.tool, args |-> entry.args, score |-> best]
             ELSE got = Miss(best)

\* C24: for a query that is no key of the table, get returns the entry of the
\* greatest similarity, with that similarity, iff the similarity is at least
\* the threshold and the entry is not exact_only; otherwise it returns no
\* entry and the greatest similarity, which is 0.0 under an empty index.
C24_FuzzyMatchIffAtLeastThreshold ==
    cachePhase = "ready" =>
        \A query \in Queries, threshold \in Thresholds :
            Normalize(query) \notin KeysOf(cache_dict) =>
                ExpectedFuzzy(query, threshold, GetCachedTool(query, threshold))

\* A get answered from the index: similarity 0.8, under the threshold 0.0, of
\* a table with two fuzzy entries.
C24_Witness ==
    /\ cachePhase = "ready"
    /\ Len(utterance_texts) = 2
    /\ lastGet.hit
    /\ lastGet.score = 20
    /\ lastGet.key = utterance_texts[2]

\* C22: when tool_cache.json, or routes.json, cannot be parsed at load, the
\* component starts with an empty table and writes the document again, and,
\* the store having taken the write, the load returns without an error.
C22_CorruptDocumentStartsEmpty ==
    [][/\ (cachePhase = "new" /\ remote = Corrupt /\ cachePhase' # "new")
          => /\ puts' >= 1
             /\ cache_dict' = <<>>
             /\ remote' # Corrupt => cachePhase' = "ready" /\ remote' = Dumps(<<>>)
       /\ (routerPhase = "new" /\ routerRemote = Corrupt /\ routerPhase' # "new")
          => /\ route_dict' = <<>>
             /\ routerRemote' # Corrupt
                    => routerPhase' = "ready" /\ routerRemote' = Dumps(<<>>)]_vars

-----------------------------------------------------------------------------
(* Resolution pipeline: properties *)

\* The run has left the step named.
Past(step) == step \in pipe.steps

\* C13: after a cache hit the one call of execute_tool names the cached tool
\* and the cached arguments with room set to the run's room, whatever room was
\* stored, and the run has asked no router, looked up no fast path, called no
\* fallback model and added nothing to the cache.
C13_HitExecutesCachedTool ==
    pipe.got.hit =>
        /\ Len(pipe.calls) = 1
        /\ pipe.calls[1].tool = pipe.got.tool
        /\ DOMAIN pipe.calls[1].args = DOMAIN pipe.got.args \cup {"room"}
        /\ pipe.calls[1].args.room = pipe.room
        /\ \A k \in DOMAIN pipe.got.args \ {"room"} :
                pipe.calls[1].args[k] = pipe.got.args[k]
        /\ pipe.steps = {"cache", "execute"}
        /\ pipe.router = NoRouter
        /\ pipe.offered = {}
        /\ pipe.adds = <<>>
        /\ Lookup(cache_dict, pipe.got.key).args = pipe.got.args

\* A run in the kitchen hit an entry stored with room "office", and its
\* response was published.
C13_Witness ==
    /\ pipe.pc = "done"
    /\ pipe.got.hit
    /\ "room" \in DOMAIN pipe.got.args
    /\ pipe.got.args.room = "office"
    /\ pipe.room = "kitchen"
    /\ pipe.tts # Unpublished

\* What a run that took the fast path has done: one call of execute_tool, for
\* the table's tool with the table's arguments and the run's room; no fallback
\* model call and no cache add.
FastPathRun ==
    /\ Len(pipe.calls) = 1
    /\ pipe.calls[1].tool = FastPathMap[pipe.router.matched_text].tool
    /\ pipe.calls[1].args = [room |-> pipe.room]
    /\ ~Past("llm")
    /\ ~Past("add")
    /\ pipe.adds = <<>>

\* The fallback is invoked: run_llm_inference is the run's next step, or
\* has been called.
FallbackInvoked ==
    pipe.pc = "llm" \/ Past("llm")

\* C14 as stated: on a cache miss the fast path is taken if and only if the
\* matched phrase is a key of the fast-path table and the score exceeds 0.85;
\* otherwise the fallback is invoked.
C14_FastPathIffExceeds ==
    Past("router") =>
        /\ ~pipe.got.hit
        /\ Past("fast") <=> (/\ pipe.router.matched_text \in DOMAIN FastPathMap
                             /\ pipe.router.score > 85)
        /\ Past("fast") => FastPathRun
        /\ ~Past("fast") => FallbackInvoked

\* C14, amended: on a cache miss the fast path is taken if and only if the
\* matched phrase is a key of the fast-path table and the score is at least
\* 0.85; otherwise the fallback is invoked.
C14_FastPathIffAtLeast ==
    Past("router") =>
        /\ ~pipe.got.hit
        /\ Past("fast") <=> (/\ pipe.router.matched_text \in DOMAIN FastPathMap
                             /\ pipe.router.score >= 85)
        /\ Past("fast") => FastPathRun
        /\ ~Past("fast") => FallbackInvoked

\* A run whose router score was exactly 0.85 took the fast path and its
\* response was published.
C14_Witness ==
    /\ pipe.pc = "done"
    /\ Past("fast")
    /\ pipe.router.score = 85
    /\ pipe.router.matched_text = "musik stoppen"
    /\ pipe.tts # Unpublished

\* C15: the tools offered to the fallback model are the tools mapped to the
\* matched route when the router matched a route with a score above 0.6, and
\* all tools when it matched no route above 0.6.
C15_ToolSetByConfidence ==
    Past("llm") =>
        pipe.offered =
            IF pipe.router.route # None /\ pipe.router.score > 60
            THEN {tool \in ToolDefinitions :
                    tool \in AllowedToolNames(pipe.router.route)}
            ELSE ToolDefinitions

\* The add call the pipeline owes for an executed tool call.
OwedAdd(call) ==
    [utterance |-> pipe.text, tool |-> call.tool,
     args |-> [k \in DOMAIN call.args \ {"room"} |-> call.args[k]]]

\* C16: a run whose fallback executed tool calls ends with one cache add per
\* executed call, in order, for the run's utterance with the room removed; no
\* entry the pipeline wrote holds a room argument; and a run for an utterance
\* the pipeline has learned is served from the cache without the fallback.
C16_EveryExecutedCallLearned ==
    /\ (pipe.pc = "done" /\ Past("llm") /\ "execute" \in pipe.steps) =>
            /\ Len(pipe.adds) = Len(pipe.calls)
            /\ \A i \in DOMAIN pipe.calls : pipe.adds[i] = OwedAdd(pipe.calls[i])
    /\ \A i \in DOMAIN cache_dict :
            cache_dict[i].key \notin KeysOf(loaded) =>
                "room" \notin DOMAIN cache_dict[i].data.args
    /\ (/\ Past("cache")
        /\ pipe.adds = <<>>
        /\ Normalize(pipe.text) \in DOMAIN firstAdd) =>
            /\ pipe.got.hit
            /\ ~Past("llm")

\* C17: the response text a run returns, and the text it publishes as
\* tts-generate, is neither absent nor empty.
C17_ResponseNeverEmpty ==
    /\ pipe.pc = "publish" => pipe.response \notin {None, ""}
    /\ pipe.tts # Unpublished => pipe.tts \notin {None, ""}

\* C27: only the learning step of a run changes the cache.  No other step of
\* a run (the cache lookup with the execution of a hit, the router step with
\* the fast path, the fallback model step, the publish) changes the table,
\* the fuzzy index or the remote document; so a run that ends on a cache hit,
\* on the fast path or on a fallback without tool calls leaves them as they
\* were, the arguments of the entry that was hit included.
C27_OnlyLearningChangesCache ==
    [][(pipe' # pipe /\ pipe.pc # "learn")
       => UNCHANGED <<cache_dict, utterance_texts, utterance_matrix, remote>>]_vars

\* A run in the office hit an entry that was learned without a room, and its
\* response was published.
C27_Witness ==
    /\ pipe.pc = "done"
    /\ pipe.got.hit
    /\ pipe.adds = <<>>
    /\ pipe.room = "office"
    /\ pipe.calls[1].args.room = "office"
    /\ "room" \notin DOMAIN Lookup(cache_dict, pipe.got.key).args
    /\ remote = Dumps(cache_dict)
    /\ pipe.tts # Unpublished

\* C23: a failure of the device gateway, of the fallback model or of the
\* remote store does not leave resolve_and_execute_intent: every run reaches
\* publish_response, so the except block is entered from the publish only.
C23_FailuresStayInResolution ==
    [][(pipe.pc # "except" /\ pipe'.pc = "except") => pipe.pc = "publish"]_vars

-----------------------------------------------------------------------------
(* Event loop: properties *)

\* The pipeline run is waiting on a collaborator call.
Waiting(ri) == IsRun(ri) /\ Run(ri[1], ri[2]).pc = "calling"

\* C18: while a room's pipeline run is waiting on a collaborator call, the
\* message loop can consume a transcript and a speaker message of every other
\* room (as long as the broker has messages), and a task of the other room
\* that was started can run.
C18_OtherRoomsNotDelayed ==
    \A ri \in AllRuns : \A room \in Rooms \ {ri[1]} :
        Waiting(ri) =>
            /\ nConsumed < MaxEvents =>
                    /\ ENABLED Transcript(room, "turn off light")
                    /\ ENABLED Speaker(room, "bob")
            /\ starts[room] > 0 =>
                    ENABLED (TaskNotReady(room) \/ TaskPop(room))

\* C20: a transcript or a speaker message for a room without an entry creates
\* the entry.  When the messages of a room are exactly transcript(T),
\* speaker(S) or speaker(S), transcript(T), with no wake and T a non-blank
\* text, at most one unit is popped for the room, it is (T, S) and it is
\* handed to the pipeline, no task of the room fails, and once every task
\* created for the room has run, the unit has been popped.
C20_EntryCreatedWithoutWake ==
    \A room \in Rooms :
        scenario[room].st \in {"ts", "st"} =>
            /\ Len(runs[room]) <= 1
            /\ \A i \in DOMAIN runs[room] :
                    /\ Run(room, i).text = scenario[room].T
                    /\ Run(room, i).speaker_id = scenario[room].S
                    /\ Run(room, i).pipeline
                    /\ Run(room, i).pc # "crashed"
                    /\ room \notin DOMAIN pending_intents
            /\ starts[room] = 0 => Len(runs[room]) = 1

C20_Witness ==
    /\ scenario["office"].st = "st"
    /\ starts["office"] = 0
    /\ Len(runs["office"]) = 1
    /\ Run("office", 1).text = "turn off light"
    /\ Run("office", 1).speaker_id = "bob"
    /\ Run("office", 1).pc = "done"
    /\ "office" \notin DOMAIN pending_intents

-----------------------------------------------------------------------------
(* Semantic router: properties *)

\* The routes other than route_name that hold the utterance, as it was given or
\* in its normalized form.
OtherOwners(utterance, route_name) ==
    {route_dict[i].route : i \in
        {j \in DOMAIN route_dict :
            /\ route_dict[j].route # Normalize(route_name)
            /\ \/ InPhrases(utterance, route_dict[j].phrases)
               \/ InPhrases(Normalize(utterance), route_dict[j].phrases)}}

\* C19: teaching an utterance that already belongs to a different route
\* (taught earlier, or present in the loaded or default route table) leaves the
\* route table, the matrix, the row labels and the remote document unchanged
\* and returns the conflict message naming an owning route.
C19_ConflictLeavesRouterUntouched ==
    [][(/\ routerPhase = "ready"
        /\ lastTeach' # NoTeach
        /\ OtherOwners(lastTeach'.utterance, lastTeach'.route_name) # {})
       => /\ UNCHANGED <<route_dict, routes, router_matrix, utterance_routes,
                         routerRemote>>
          /\ lastTeach'.result.kind = "conflict"
          /\ lastTeach'.result.route
                \in OtherOwners(lastTeach'.utterance, lastTeach'.route_name)]_vars

\* The example utterances of all routes, one after the other.
RECURSIVE AllPhrases(_, _)
AllPhrases(dict, n) ==
    IF n = 0 THEN <<>> ELSE AllPhrases(dict, n - 1) \o dict[n].phrases

\* How often the route holds the utterance.
TimesHeld(route_name, utterance) ==
    Cardinality({p \in (DOMAIN route_dict) \X (DOMAIN AllPhrases(route_dict, Len(route_dict))) :
                    /\ route_dict[p[1]].route = route_name
                    /\ p[2] \in DOMAIN route_dict[p[1]].phrases
                    /\ route_dict[p[1]].phrases[p[2]] = utterance})

\* How many rows encode the utterance under the label of the route.
TimesEncoded(route_name, utterance) ==
    Cardinality({i \in DOMAIN row_texts :
                    utterance_routes[i] = route_name /\ row_texts[i] = utterance})

RowsMatchTable ==
    routerPhase = "ready" =>
        /\ Len(router_matrix) = Len(utterance_routes)
        /\ Len(router_matrix) = Len(AllPhrases(route_dict, Len(route_dict)))
        /\ Len(router_matrix) = Len(row_texts)
        /\ \A i \in DOMAIN router_matrix :
                /\ router_matrix[i] = NormalizeVector(RouterEncode(row_texts[i]))
                /\ TimesHeld(utterance_routes[i], row_texts[i])
                        = TimesEncoded(utterance_routes[i], row_texts[i])

TeachAddsOne ==
    (lastTeach' # lastTeach /\ lastTeach'.result.kind = "learned")
        => /\ Len(router_matrix') = Len(router_matrix) + 1
           /\ Len(utterance_routes') = Len(utterance_routes) + 1
           /\ Len(AllPhrases(route_dict', Len(route_dict')))
                = Len(AllPhrases(route_dict, Len(route_dict))) + 1
           /\ router_matrix'[Len(router_matrix')]
                = NormalizeVector(RouterEncode(lastTeach'.result.utterance))
           /\ utterance_routes'[Len(utterance_routes')] = lastTeach'.result.route

\* C25: after load and after any teaches the router's matrix has as many rows
\* as there are labels and as there are example utterances over all routes,
\* the label of each row is the route that holds the utterance the row
\* encodes, and a teach that succeeds adds one row, one label and one utterance.
C25_RowsLabelsAndUtterancesAgree ==
    []RowsMatchTable /\ [][TeachAddsOne]_vars

\* A teach has succeeded on the default table.
C25_Witness ==
    /\ routerPhase = "ready"
    /\ lastTeach.result.kind = "learned"
    /\ Len(router_matrix) = 4
    /\ Len(route_dict) = 3

\* The similarity of the query, lower-cased, to each row.
RowScores(query) ==
    [i \in DOMAIN router_matrix |->
        Dot(router_matrix[i], NormalizeVector(RouterEncode(Lower(query))))]

\* What C26 expects of classify(query).
ExpectedRoute(query, got) ==
    IF AllPhrases(route_dict, Len(route_dict)) = <<>> THEN ~got.found
    ELSE LET scores == RowScores(query)
             best == CHOOSE s \in {scores[i] : i \in DOMAIN scores} :
                        \A i \in DOMAIN scores : scores[i] <= s
             first == CHOOSE i \in DOMAIN scores :
                        scores[i] = best /\ \A j \in 1..(i - 1) : scores[j] < best
         IN  IF best >= RouterThreshold
             THEN /\ got.found
                  /\ got.route = utterance_routes[first]
                  /\ \E k \in DOMAIN route_dict :
                        /\ route_dict[k].route = got.route
                        /\ InPhrases(row_texts[first], route_dict[k].phrases)
             ELSE ~got.found

\* C26: classify returns the route that owns the row of the greatest
\* similarity if that similarity is at least the router's threshold, and none
\* otherwise; it returns none when no route has an example.
C26_ClassifyByBestRow ==
    routerPhase = "ready" =>
        \A query \in Queries : ExpectedRoute(query, GetRoute(query))

\* classify answered with the route of the third row, at similarity 0.96.
C26_Witness ==
    /\ routerPhase = "ready"
    /\ lastRoute.found
    /\ lastRoute.score = 24
    /\ lastRoute.route = utterance_routes[3]
    /\ utterance_routes[1] # utterance_routes[3]

-----------------------------------------------------------------------------
(* Remote documents: properties *)

\* C28: with a store that takes the writes, after every add that inserts an
\* entry the remote cache document is the whole cache table, and after every
\* teach that succeeds the remote route document is the whole route table.
C28_MutationRewritesDocument ==
    [][/\ (cachePhase = "ready" /\ cache_dict' # cache_dict)
            => remote' = Dumps(cache_dict')
       /\ (routerPhase = "ready" /\ route_dict' # route_dict)
            => /\ lastTeach'.result.kind = "learned"
               /\ routerRemote' = Dumps(route_dict')]_vars

\* Two entries were inserted and two utterances taught.
C28_Witness ==
    /\ lastAdd = "new"
    /\ Len(cache_dict) = 2
    /\ remote = Dumps(cache_dict)
    /\ lastTeach.result.kind = "learned"
    /\ Len(row_texts) = 3
    /\ routerRemote = Dumps(route_dict)

-----------------------------------------------------------------------------
(* Sanitizer: properties *)

\* The window sizes that fit at position i.
FittingWindows(words, i) == {w \in 1..3 : i + w <= Len(words)}

\* The pairs of a fitting window and a vocabulary entry at position i.
WindowPairs(words, i) ==
    FittingWindows(words, i) \X DOMAIN known_vocabulary

PairScore(words, i, pair) ==
    DiceCoefficient(Chunk(words, i, pair[1]), known_vocabulary[pair[2]])

\* The pairs whose score no other pair exceeds.
BestPairs(words, i) ==
    {p \in WindowPairs(words, i) :
        \A q \in WindowPairs(words, i) :
            AtLeast(PairScore(words, i, p), PairScore(words, i, q))}

\* One round of the scan replaces a best-scoring window by its vocabulary
\* entry when that score reaches the threshold, and keeps one token otherwise.
ScanPicksBest ==
    (san.pc = "scan" /\ san'.pc = "scan" /\ san' # san) =>
        LET i == san.i
            passing == {p \in BestPairs(san.words, i) :
                            AtLeast(PairScore(san.words, i, p), dice_threshold)}
            last == san'.result_words[Len(san'.result_words)]
        IN  /\ Len(san'.result_words) = Len(san.result_words) + 1
            /\ SubSeq(san'.result_words, 1, Len(san.result_words)) = san.result_words
            /\ san'.i > san.i
            /\ IF passing # {}
               THEN \E p \in passing :
                        /\ san'.i = i + p[1]
                        /\ last = known_vocabulary[p[2]]
               ELSE /\ san'.i = i + 1
                    /\ last = san.words[i + 1]

\* The tokens before the scan position were consumed once, the others not yet;
\* the scan never passes the end, and returns only at the end.
TokensConsumedOnce ==
    /\ san.i <= Len(san.words)
    /\ DOMAIN san.used = DOMAIN san.words
    /\ \A k \in DOMAIN san.used : san.used[k] = IF k <= san.i THEN 1 ELSE 0
    /\ san.pc = "done" =>
            /\ san.i = Len(san.words)
            /\ san.out = JoinWords(san.result_words)

\* C29: at every scan position the sanitizer takes a vocabulary entry of the
\* highest Dice score over all window sizes 3, 2 and 1 that fit; it replaces
\* that window and advances by its size iff the score is at least the
\* threshold, otherwise it keeps the single token and advances by one; every
\* round advances, so every token is consumed exactly once and the scan ends.
C29_BestWindowWinsAndScanEnds ==
    []TokensConsumedOnce /\ [][ScanPicksBest]_vars

\* "abcd b" with the entries "abcd" and "abcdbc" at threshold 0.75: the window
\* of two tokens passes the threshold (6/7), yet the window of one token
\* scores 1 and wins, so the second token is scanned on its own.
C29_Witness ==
    /\ san.pc = "done"
    /\ dice_threshold = Fraction(3, 4)
    /\ san.words = << <<"a", "b", "c", "d">>, <<"b">> >>
    /\ \E k \in DOMAIN known_vocabulary :
            /\ known_vocabulary[k] = <<"a", "b", "c", "d", "b", "c">>
            /\ AtLeast(DiceCoefficient(Chunk(san.words, 0, 2), known_vocabulary[k]),
                       dice_threshold)
    /\ san.result_words = << <<"a", "b", "c", "d">>, <<"b">> >>
    /\ san.used = <<1, 1>>

\* C30: a text made of vocabulary entries, sanitized, is returned unchanged
\* when it is sanitized again.
C30_SanitizeIdempotentOnCovered ==
    (san.pc = "done" /\ san.again /\ san.covered) => san.out = san.text

\* Two scores are the same number.
SameScore(a, b) == a.num * b.den = b.num * a.den

\* The characters of a string that are not blanks.
NonBlank(text) == SelectSeq(text, LAMBDA c : c # " ")

\* The score is a quotient by a positive number, and is the score of the
\* two strings in the other order.
DiceSymmetric ==
    lastDice.called =>
        /\ lastDice.score.den > 0
        /\ SameScore(lastDice.score, DiceCoefficient(lastDice.str2, lastDice.str1))

\* With fewer than three characters other than blanks in either string the
\* score is 0.
DiceZeroWithoutTrigrams ==
    (lastDice.called /\ (Len(NonBlank(lastDice.str1)) < 3 \/ Len(NonBlank(lastDice.str2)) < 3))
        => lastDice.score.num = 0

\* C31, as stated: the similarity is symmetric, is 1.0 of a string of three
\* characters or more with itself, and is 0.0, with no division by zero, when
\* a string has no trigram.
C31_DiceSymmetricAndOneOnSelf ==
    /\ DiceSymmetric
    /\ DiceZeroWithoutTrigrams
    /\ (lastDice.called /\ lastDice.str1 = lastDice.str2 /\ Len(lastDice.str1) >= 3)
            => SameScore(lastDice.score, Fraction(1, 1))

\* C31, amended: the similarity is symmetric, is 1.0 of a string with itself
\* when the string has three characters or more that are not blanks, and is
\* 0.0, with no division by zero, when a string has no trigram.
C31_DiceSymmetricAndOneOnSelfWithTrigrams ==
    /\ DiceSymmetric
    /\ DiceZeroWithoutTrigrams
    /\ (lastDice.called /\ lastDice.str1 = lastDice.str2
            /\ Len(NonBlank(lastDice.str1)) >= 3)
            => SameScore(lastDice.score, Fraction(1, 1))

\* A string of four characters, one of them a blank, was compared with itself.
C31_Witness ==
    /\ lastDice.called
    /\ lastDice.str1 = <<"a", " ", "b", "c">>
    /\ lastDice.str2 = lastDice.str1
    /\ SameScore(lastDice.score, Fraction(1, 1))

-----------------------------------------------------------------------------
(* Event correlator: rooms and sessions *)

\* The runs of a room that are inside resolve_and_execute_intent.
InFlight(room) ==
    {i \in DOMAIN runs[room] : runs[room][i].pc \in {"resolve", "calling"}}

PendingOf(table, room) ==
    IF room \in DOMAIN table THEN <<table[room]>> ELSE <<>>

\* A message of the room is consumed, or a task of the room checks the entry
\* and returns or dispatches it.
RoomStep(room) ==
    \/ /\ nConsumed' = nConsumed + 1
       /\ \/ Wake(room)
          \/ \E field \in PayloadTexts : Transcript(room, field)
          \/ \E field \in PayloadSpeakers : Speaker(room, field)
    \/ /\ starts'[room] = starts[room] - 1
       /\ \/ TaskNotReady(room)
          \/ TaskPop(room)

\* C33: a wake, a transcript or a speaker message of a room, and a dispatch
\* for the room, leave the entry, the tasks and the runs of every other room as
\* they were; a message without a room changes nothing but the count of
\* messages consumed.
C33_RoomsIndependent ==
    [][/\ \A other \in Rooms :
            \/ /\ PendingOf(pending_intents', other) = PendingOf(pending_intents, other)
               /\ starts'[other] = starts[other]
               /\ runs'[other] = runs[other]
            \/ \A room \in Rooms \ {other} : ~RoomStep(room)
       /\ NoRoomMessage =>
            UNCHANGED <<pending_intents, starts, runs, active_sessions, volume>>]_vars

\* The kitchen's unit was dispatched while the office held a transcript.
C33_Witness ==
    /\ Len(runs["kitchen"]) = 1
    /\ scenario["kitchen"].st \in {"wst", "wts"}
    /\ "kitchen" \notin DOMAIN pending_intents
    /\ PendingOf(pending_intents, "office") = << [text |-> "turn off light"] >>

\* The room's messages are exactly one wake, one non-blank transcript and one
\* speaker, in one of the six orders of arrival.
SessionArrived(room) ==
    scenario[room].st \in {"wst", "wts", "tws", "swt", "tsw", "stw"}

\* C34: when the wake, the transcript and the speaker of a session have all
\* arrived, in whatever order, then once every task created for the room has
\* run, a unit with that transcript and that speaker has been dispatched: the
\* room is not left with an entry that no task will find ready.
C34_SessionDispatchedInAnyOrder ==
    \A room \in Rooms :
        (SessionArrived(room) /\ starts[room] = 0) =>
            \E i \in DOMAIN runs[room] :
                /\ Run(room, i).text = scenario[room].T
                /\ Run(room, i).speaker_id = scenario[room].S

-----------------------------------------------------------------------------
(* Resolution pipeline: what is learned *)

\* The run went to the fallback model, executed tool calls, learned them and
\* published its response.
LearnedAndPublished ==
    /\ pipe.pc = "done"
    /\ "add" \in pipe.steps
    /\ pipe.tts # Unpublished

\* The tools a run executes that is served from the cache for the text of the
\* latest run (lines 204-218: the one tool of the entry).
ToolsFromCache ==
    LET got == GetCachedTool(pipe.text, CacheThreshold)
    IN  IF got.hit THEN <<got.tool>> ELSE <<>>

\* C35: when the fallback has executed several tool calls for an utterance and
\* learned them, the same utterance served from the cache executes the same
\* tools as the fallback run did.
C35_AllToolCallsLearned ==
    LearnedAndPublished =>
        ToolsFromCache = [k \in DOMAIN pipe.calls |-> pipe.calls[k].tool]

\* C36: the cache entry a run writes, which is that of the first tool call of
\* the model's answer, is for a call that was executed to its end; a call
\* whose tool is not implemented or whose function raised is not learned.
C36_FailedCallsNotLearned ==
    pipe.adds # <<>> => ~pipe.first_failed

-----------------------------------------------------------------------------
(* Remote documents: loads and failed writes *)

\* The remote object is a document that holds entries.
HoldsEntries(object) ==
    object \notin {Absent, Corrupt} /\ Loads(object) # <<>>

\* C37: a load never puts the empty table in the place of a remote cache
\* document that holds entries.
C37_LoadKeepsRemoteEntries ==
    [][(cachePhase = "new" /\ cachePhase' # "new" /\ HoldsEntries(remote))
            => remote' # Dumps(<<>>)]_vars

\* An add whose remote write failed.
AddWriteFailed ==
    /\ cachePhase = "ready"
    /\ puts' = 1
    /\ remote' # Dumps(cache_dict')

\* A teach whose remote write failed.
TeachWriteFailed ==
    /\ routerPhase = "ready"
    /\ lastTeach' # lastTeach
    /\ lastTeach'.result.kind = "raises"

\* C38: an add or a teach whose remote write fails leaves the table and the
\* index in memory as they were before the call.
C38_FailedWriteLeavesMemory ==
    [][/\ AddWriteFailed =>
            UNCHANGED <<cache_dict, utterance_texts, utterance_matrix>>
       /\ TeachWriteFailed =>
            UNCHANGED <<route_dict, routes, router_matrix, utterance_routes>>]_vars

-----------------------------------------------------------------------------
(* Volume ducking: properties *)

\* C39: the volume recorded for a room at the first wake of a session, which
\* is the volume the session-end sets, is not replaced while the session
\* lasts, however many wakes follow; and a session-end for a room without a
\* recorded session sets no volume.
C39_RestoresVolumeBeforeFirstWake ==
    [][\A room \in Rooms :
        /\ (room \in DOMAIN active_sessions /\ room \in DOMAIN active_sessions')
                => active_sessions'[room] = active_sessions[room]
        /\ (room \notin DOMAIN active_sessions /\ Finished(room))
                => volume' = volume]_vars

-----------------------------------------------------------------------------
(* Tool dispatch: properties *)

\* C40: the tool of every fast-path entry has a function in the dispatcher's
\* table, so that a run that takes the fast path never has the dispatcher's
\* "defined but not implemented" text as its response.
C40_FastPathToolsImplemented ==
    "fast" \in pipe.steps =>
        /\ pipe.calls[1].tool \in ToolMapping
        /\ pipe.response # "<not implemented>"

=============================================================================
